---- MODULE Spec2Model ----
(***************************************************************************)
(* Model of the img-compress client pipeline:                              *)
(*   - src/unnamed/part_002 (utils/imageUtils.ts): header probe, scaling   *)
(*   - src/src/utils/pixoUtils.ts: decode caps                             *)
(*   - src/src/pixoClient.tsx: ensurePixoInit, extractPixels,              *)
(*     compressWithPixo, PixoCompressor                                    *)
(*   - src/src/client.tsx: compressImage, ImageCompressor                  *)
(*                                                                         *)
(* SpecPipe : compressWithPixo and compressImage calls of one caller, one  *)
(*            action per synchronous run between two awaits.               *)
(* SpecInit : concurrent compressWithPixo calls sharing pixoReady.         *)
(* SpecComp : one compressor component (Pixo page or Canvas page) with its *)
(*            debounced, cancellable compress effect.                      *)
(* SpecFull : the Pixo page with its requests running compressWithPixo     *)
(*            step by step.                                                *)
(* SpecUtil : the pure helpers of imageUtils.ts on sampled arguments.      *)
(***************************************************************************)
EXTENDS Integers, Sequences, FiniteSets, TLC

(***************************************************************************)
(* Bounds of the model                                                     *)
(***************************************************************************)
\* number of concurrent callers of compressWithPixo
NumCallers == 2
\* total number of compressWithPixo calls made in a behaviour
MaxCalls == 3

(***************************************************************************)
(* Program constants                                                       *)
(***************************************************************************)
DECODE_MAX_DIMENSIONS == <<4096, 2048, 1024>>
\* the prefix getImageDimensionsFromHeader slices off the file
HEADER_SLICE == 65536
PIXO_DEFAULT_QUALITY == 85
PIXO_MIN_QUALITY == 1
PIXO_MAX_QUALITY == 100
\* imageUtils.ts; the Canvas qualities are kept in hundredths (0.8 is 80)
DEFAULT_QUALITY == 80
MIN_QUALITY == 10
MAX_QUALITY == 100
MAX_FILE_SIZE == 15 * 1024 * 1024
MAX_CANVAS_DIMENSION == 4096
SUPPORTED_TYPES == {"image/jpeg", "image/jpg", "image/png"}

isFileTypeSupported(fileType) == fileType \in SUPPORTED_TYPES
\* a plausible slip: the limit itself is refused
isFileSizeBelow(fileSize, maxSize) == fileSize > 0 /\ fileSize < maxSize

isFileSizeValid(fileSize, maxSize) == fileSize > 0 /\ fileSize <= maxSize

\* a plausible slip: the size check is left out
ValidateTypeOnly(type, size) ==
    IF ~isFileTypeSupported(type) THEN "Unsupported file type" ELSE ""

\* the two checks at the head of handleFileSelect and of compressImage, the
\* size check with its default maxSize: "" when the file passes
Validate(type, size) ==
    IF ~isFileTypeSupported(type) THEN "Unsupported file type"
    ELSE IF ~isFileSizeValid(size, MAX_FILE_SIZE) THEN "File size exceeds limit"
    ELSE ""

Min(a, b) == IF a < b THEN a ELSE b

(***************************************************************************)
(* Files.  A file is its MIME type, its byte size and its bytes; the bytes *)
(* are kept as a function on the offsets that hold a non-zero byte (every  *)
(* other offset below size holds 0).                                       *)
(***************************************************************************)
Place(off, bs) == [i \in off..(off + Len(bs) - 1) |-> bs[i - off + 1]]

PngSignature == <<137, 80, 78, 71, 13, 10, 26, 10>>

\* PNG, IHDR 800 x 600 (the header of imageUtils.test.ts)
PngBytes ==
    Place(0, PngSignature \o <<0, 0, 0, 13, 73, 72, 68, 82>>
             \o <<0, 0, 3, 32>> \o <<0, 0, 2, 88>> \o <<8, 2, 0, 0>>)
\* JPEG, APP0 then SOF0 700 x 500 (the header of imageUtils.test.ts)
JpegBytes ==
    Place(0, <<255, 216, 255, 224, 0, 16>>) @@
    Place(20, <<255, 192, 0, 17, 8, 1, 244, 2, 188>>)
\* JPEG, SOF0 8000 x 4000 right after SOI
WideBytes == Place(0, <<255, 216, 255, 192, 0, 17, 8, 15, 160, 31, 64>>)
\* JPEG, SOF2 3000 x 5000 (portrait) right after SOI
TallBytes == Place(0, <<255, 216, 255, 194, 0, 17, 8, 19, 136, 11, 184>>)
\* JPEG whose APP1 segment (length 65535) pushes SOF0 1600 x 1200 to 65539
FarBytes ==
    Place(0, <<255, 216, 255, 225, 255, 255>>) @@
    Place(65539, <<255, 192, 0, 17, 8, 4, 176, 6, 64>>)
\* GIF signature
GifBytes == Place(0, <<71, 73, 70>>)
\* PNG whose IHDR declares 0 x 600
ZeroBytes ==
    Place(0, PngSignature \o <<0, 0, 0, 13, 73, 72, 68, 82>>
             \o <<0, 0, 0, 0>> \o <<0, 0, 2, 88>> \o <<8, 2, 0, 0>>)

Files ==
    [ png  |-> [type |-> "image/png",  size |-> 28,      bytes |-> PngBytes],
      jpeg |-> [type |-> "image/jpeg", size |-> 29,      bytes |-> JpegBytes],
      wide |-> [type |-> "image/jpeg", size |-> 5000000, bytes |-> WideBytes],
      tall |-> [type |-> "image/jpeg", size |-> 3000000, bytes |-> TallBytes],
      far  |-> [type |-> "image/jpeg", size |-> 70000,   bytes |-> FarBytes],
      gif  |-> [type |-> "image/gif",  size |-> 3,       bytes |-> GifBytes],
      zero |-> [type |-> "image/png",  size |-> 28,      bytes |-> ZeroBytes],
      huge |-> [type |-> "image/jpeg", size |-> MAX_FILE_SIZE + 1,
                bytes |-> WideBytes] ]

FileIds == DOMAIN Files

(***************************************************************************)
(* DataView over file.slice(0, n)                                          *)
(***************************************************************************)
getUint8(f, i) == IF i \in DOMAIN f.bytes THEN f.bytes[i] ELSE 0
getUint16(f, i) == getUint8(f, i) * 256 + getUint8(f, i + 1)
\* a plausible slip: the littleEndian flag of getUint32 is set
getUint32LittleEndian(f, i) ==
    getUint8(f, i) + 256 * getUint8(f, i + 1) + 65536 * getUint8(f, i + 2)
       + 16777216 * getUint8(f, i + 3)
getUint32(f, i) == getUint16(f, i) * 65536 + getUint16(f, i + 2)

\* a plausible slip: DHT, JPG and DAC are not excluded
IsFrameMarkerUnfiltered(marker) == marker >= 192 /\ marker <= 207

IsFrameMarker(marker) ==
    /\ marker >= 192
    /\ marker <= 207
    /\ marker # 196
    /\ marker # 200
    /\ marker # 204

NoDims == [ok |-> FALSE, width |-> 0, height |-> 0]

\* a plausible slip: the loop runs while the offset itself is in the buffer
InLoopToLastByte(offset, byteLength) == offset < byteLength

\* the loop condition `offset + 4 < buffer.byteLength`
InLoop(offset, byteLength) == offset + 4 < byteLength

\* the while loop of getImageDimensionsFromHeader over a buffer of byteLength bytes
RECURSIVE JpegWalk(_, _, _)
JpegWalk(f, byteLength, offset) ==
    IF ~InLoop(offset, byteLength) THEN NoDims
    ELSE IF getUint8(f, offset) # 255 THEN NoDims
    ELSE IF IsFrameMarker(getUint8(f, offset + 1)) /\ offset + 9 <= byteLength
         THEN [ok |-> TRUE, width |-> getUint16(f, offset + 7),
               height |-> getUint16(f, offset + 5)]
    ELSE JpegWalk(f, byteLength, offset + 2 + getUint16(f, offset + 2))

\* the body of getImageDimensionsFromHeader on a buffer of byteLength bytes;
\* ok = FALSE stands for the thrown
\* "Could not read image dimensions from file header"
ParseHeader(f, byteLength) ==
    IF byteLength >= 24 /\ getUint8(f, 0) = 137 /\ getUint8(f, 1) = 80
    THEN [ok |-> TRUE, width |-> getUint32(f, 16), height |-> getUint32(f, 20)]
    ELSE IF byteLength >= 2 /\ getUint8(f, 0) = 255 /\ getUint8(f, 1) = 216
    THEN JpegWalk(f, byteLength, 2)
    ELSE NoDims

\* The DataView reads the same code makes, each as the offset it is made
\* at and the number of bytes it takes, and the offsets the loop visits
Read(at, bytes) == [at |-> at, bytes |-> bytes]

RECURSIVE JpegWalkReads(_, _, _)
JpegWalkReads(f, byteLength, offset) ==
    IF ~InLoop(offset, byteLength) THEN {}
    ELSE IF getUint8(f, offset) # 255 THEN {Read(offset, 1)}
    ELSE IF IsFrameMarker(getUint8(f, offset + 1)) /\ offset + 9 <= byteLength
         THEN {Read(offset, 1), Read(offset + 1, 1),
               Read(offset + 5, 2), Read(offset + 7, 2)}
    ELSE {Read(offset, 1), Read(offset + 1, 1), Read(offset + 2, 2)}
         \cup JpegWalkReads(f, byteLength, offset + 2 + getUint16(f, offset + 2))

RECURSIVE JpegWalkOffsets(_, _, _)
JpegWalkOffsets(f, byteLength, offset) ==
    IF ~InLoop(offset, byteLength) THEN <<>>
    ELSE IF getUint8(f, offset) # 255 THEN <<offset>>
    ELSE IF IsFrameMarker(getUint8(f, offset + 1)) /\ offset + 9 <= byteLength
         THEN <<offset>>
    ELSE <<offset>> \o
         JpegWalkOffsets(f, byteLength, offset + 2 + getUint16(f, offset + 2))

\* `a && b && c`: b is evaluated only if a holds, c only if b holds
SignatureReads(f, byteLength, least, first) ==
    IF ~(byteLength >= least) THEN {}
    ELSE IF getUint8(f, 0) # first THEN {Read(0, 1)}
    ELSE {Read(0, 1), Read(1, 1)}

HeaderReads(f, byteLength) ==
    SignatureReads(f, byteLength, 24, 137) \cup
    IF byteLength >= 24 /\ getUint8(f, 0) = 137 /\ getUint8(f, 1) = 80
    THEN {Read(16, 4), Read(20, 4)}
    ELSE SignatureReads(f, byteLength, 2, 255) \cup
         IF byteLength >= 2 /\ getUint8(f, 0) = 255 /\ getUint8(f, 1) = 216
         THEN JpegWalkReads(f, byteLength, 2)
         ELSE {}

\* getImageDimensionsFromHeader(file): the one-parameter function of
\* imageUtils.ts; a second argument passed by a caller is not read
getImageDimensionsFromHeader(f) == ParseHeader(f, Min(f.size, HEADER_SLICE))

(***************************************************************************)
(* calculateScaledDimensions                                               *)
(***************************************************************************)
\* a plausible slip: the ratio is taken the wrong way round
RoundDivInverted(a, b, c) == (2 * b * c + a) \div (2 * a)

\* a slip: Math.floor in place of Math.round
RoundDivFloor(a, b, c) == (a * c) \div b

\* Math.round(a / b * c) for positive integers a, b, c
RoundDiv(a, b, c) == (2 * a * c + b) \div (2 * b)

\* a slip: the guard written with < lets a zero side through
calculateScaledDimensionsNegativeOnly(width, height, maxDimension) ==
    IF width < 0 \/ height < 0
    THEN [ok |-> FALSE, width |-> 0, height |-> 0]
    ELSE IF width <= maxDimension /\ height <= maxDimension
    THEN [ok |-> TRUE, width |-> width, height |-> height]
    ELSE IF width > height
    THEN [ok |-> TRUE, width |-> maxDimension,
          height |-> RoundDiv(height, width, maxDimension)]
    ELSE [ok |-> TRUE, width |-> RoundDiv(width, height, maxDimension),
          height |-> maxDimension]

\* ok = FALSE stands for the thrown "Width and height must be positive numbers"
calculateScaledDimensions(width, height, maxDimension) ==
    IF width <= 0 \/ height <= 0
    THEN [ok |-> FALSE, width |-> 0, height |-> 0]
    ELSE IF width <= maxDimension /\ height <= maxDimension
    THEN [ok |-> TRUE, width |-> width, height |-> height]
    ELSE IF width > height
    THEN [ok |-> TRUE, width |-> maxDimension,
          height |-> RoundDiv(height, width, maxDimension)]
    ELSE [ok |-> TRUE, width |-> RoundDiv(width, height, maxDimension),
          height |-> maxDimension]

(***************************************************************************)
(* The pure helpers called on their own (SpecUtil): one call's arguments   *)
(* and what its applications returned                                      *)
(***************************************************************************)
VARIABLES
    helperArgs,        \* the arguments of the helper call, helperArgs.fn names the helper
    returned     \* what the applications made so far returned, oldest first

utilVars == <<helperArgs, returned>>

NoArgs == [fn |-> "none"]

InitUtilVars ==
    /\ helperArgs = NoArgs
    /\ returned = <<>>

(***************************************************************************)
(* compressWithPixo: state                                                 *)
(***************************************************************************)
VARIABLES
    pixoReady,   \* module-level pixoReady: 0 is null, else the id of the promise
    initCalls,   \* number of initPixo() invocations so far
    initState,   \* initState[p]: "pending" | "resolved" | "rejected"
    call,        \* call[c]: the compressWithPixo call caller c is in
    nCalls       \* compressWithPixo calls made so far

initVars == <<pixoReady, initCalls, initState>>
callVars == <<call, nCalls>>

Callers == 1..NumCallers
\* the qualities compressWithPixo is called with: the ends of the slider's
\* range, its default, and one beyond the range
Qualities == {PIXO_MIN_QUALITY, PIXO_DEFAULT_QUALITY, PIXO_MAX_QUALITY + 1}
\* byte lengths encodeJpeg may return
EncodedSizes == {1000, 6000000}
\* how one decode attempt ends: "ok", or the step of the try block that throws
DecodeErrors == {"bitmap", "context", "draw", "read", "convert"}
DecodeOutcomes == {"ok"} \cup DecodeErrors
\* how encodeJpeg ends: 0 is a throw, else the byte length returned
EncodeOutcomes == {0} \cup EncodedSizes

NoError == [what |-> "none", cap |-> 0]
Error(what, cap) == [what |-> what, cap |-> cap]

NoOutcome ==
    [kind |-> "none", err |-> NoError, width |-> 0, height |-> 0,
     originalWidth |-> 0, originalHeight |-> 0,
     compressedSize |-> 0, originalSize |-> 0]
Failure(err) == [NoOutcome EXCEPT !.kind = "error", !.err = err]

\* fn: the compress function called; exports: the canvas.toBlob calls of
\* compressImage, encodes: the encodeJpeg calls of compressWithPixo
Idle ==
    [pc |-> "idle", fn |-> "none", data |-> "png", quality |-> 0, awaited |-> 0,
     probes |-> <<>>, originalWidth |-> 0, originalHeight |-> 0,
     capIdx |-> 0, width |-> 0, height |-> 0,
     attempts |-> <<>>, encodes |-> <<>>, exports |-> <<>>,
     outcome |-> NoOutcome]

InitPipeVars ==
    /\ pixoReady = 0
    /\ initCalls = 0
    /\ initState = <<>>
    /\ call = [c \in Callers |-> Idle]
    /\ nCalls = 0

(***************************************************************************)
(* ensurePixoInit                                                          *)
(***************************************************************************)
\* a plausible slip: memoise the initialisation only once it has completed
NotReadyYet(ready, states) == ready = 0 \/ states[ready] = "pending"

\* a plausible slip: a rejected initialisation is started again
NotReadyOrRejected(ready, states) == ready = 0 \/ states[ready] = "rejected"

\* the test `!pixoReady`
NotReady(ready, states) == ready = 0

\* ensurePixoInit(): the promise returned; primes pixoReady, initCalls, initState
ensurePixoInit(promise) ==
    IF NotReady(pixoReady, initState)
    THEN /\ initCalls' = initCalls + 1
         /\ initState' = Append(initState, "pending")
         /\ pixoReady' = Len(initState) + 1
         /\ promise = Len(initState) + 1
    ELSE /\ UNCHANGED <<initCalls, initState, pixoReady>>
         /\ promise = pixoReady

(***************************************************************************)
(* extractPixels and compressWithPixo, one action per synchronous run      *)
(***************************************************************************)
\* a plausible slip: the retry loop skips a cap
SkipCap(i) == i + 2

\* the for-of loop over DECODE_MAX_DIMENSIONS advances to the next cap
NextCap(i) == i + 1

\* a plausible slip: the catch block never rethrows
NeverLast(maxDim) == FALSE

\* maxDim === DECODE_MAX_DIMENSIONS[DECODE_MAX_DIMENSIONS.length - 1]
IsLastCap(maxDim) == maxDim = DECODE_MAX_DIMENSIONS[Len(DECODE_MAX_DIMENSIONS)]

\* a plausible slip: the result of calculateScaledDimensions is used
\* without the check of its arguments
AttemptUnchecked(cl, i) ==
    IF i > Len(DECODE_MAX_DIMENSIONS)
    THEN [cl EXCEPT !.pc = "done",
                    !.outcome = Failure(Error("exhausted", 0))]
    ELSE LET scaled == calculateScaledDimensions(
                           cl.originalWidth, cl.originalHeight,
                           DECODE_MAX_DIMENSIONS[i])
         IN [cl EXCEPT !.pc = "decode", !.capIdx = i,
                       !.width = scaled.width, !.height = scaled.height]

\* the head of one loop iteration i: calculateScaledDimensions (outside the
\* try) and the createImageBitmap call, or the throw after the loop
Attempt(cl, i) ==
    IF i > Len(DECODE_MAX_DIMENSIONS)
    THEN [cl EXCEPT !.pc = "done",
                    !.outcome = Failure(Error("exhausted", 0))]
    ELSE LET scaled == calculateScaledDimensions(
                           cl.originalWidth, cl.originalHeight,
                           DECODE_MAX_DIMENSIONS[i])
         IN IF ~scaled.ok
            THEN [cl EXCEPT !.pc = "done",
                            !.outcome = Failure(Error("dimensions", 0))]
            ELSE [cl EXCEPT !.pc = "decode", !.capIdx = i,
                            !.width = scaled.width, !.height = scaled.height]

\* the dimensions a probe has read become originalWidth / originalHeight
WithDims(cl, dims) ==
    [cl EXCEPT !.originalWidth = dims.width, !.originalHeight = dims.height]

\* one getImageDimensionsFromHeader call: slice.arrayBuffer() then the parse
Probe(f, readOk) == IF readOk THEN getImageDimensionsFromHeader(f) ELSE NoDims

\* compressWithPixo(data, quality) up to `await ensurePixoInit()`
Call(c, d, q) ==
    /\ call[c].pc = "idle"
    /\ nCalls < MaxCalls
    /\ nCalls' = nCalls + 1
    /\ \E promise \in 1..(Len(initState) + 1) :
          /\ ensurePixoInit(promise)
          /\ call' = [call EXCEPT ![c] =
                 [Idle EXCEPT !.pc = "init", !.fn = "compressWithPixo",
                              !.data = d, !.quality = q,
                              !.awaited = promise]]

\* the promise of initPixo() settles
InitSettle(p, ok) ==
    /\ p \in DOMAIN initState
    /\ initState[p] = "pending"
    /\ initState' = [initState EXCEPT ![p] = IF ok THEN "resolved" ELSE "rejected"]
    /\ UNCHANGED <<pixoReady, initCalls>>

\* resumes after `await ensurePixoInit()`; extractPixels starts the fast probe
AfterInit(c) ==
    /\ call[c].pc = "init"
    /\ initState[call[c].awaited] # "pending"
    /\ call' = [call EXCEPT ![c] =
           IF initState[call[c].awaited] = "rejected"
           THEN [@ EXCEPT !.pc = "done", !.outcome = Failure(Error("init", 0))]
           ELSE [@ EXCEPT !.pc = "probe1"]]
    /\ UNCHANGED <<initVars, nCalls>>

\* a plausible slip: no catch around the fast probe
NoFallback(cl, dims) ==
    IF dims.ok THEN Attempt(WithDims(cl, dims), 1)
               ELSE [cl EXCEPT !.pc = "done",
                               !.outcome = Failure(Error("header", 0))]

\* try { fast probe } catch { getImageDimensionsFromHeader(data, data.size) }
TryFastProbe(cl, dims) ==
    IF dims.ok THEN Attempt(WithDims(cl, dims), 1)
               ELSE [cl EXCEPT !.pc = "probe2"]

\* the fast probe settles: the try block, or the catch block's second call
Probe1(c, readOk) ==
    /\ call[c].pc = "probe1"
    /\ LET dims == Probe(Files[call[c].data], readOk)
           cl == [call[c] EXCEPT !.probes = Append(@, [read |-> readOk, ok |-> dims.ok])]
       IN call' = [call EXCEPT ![c] = TryFastProbe(cl, dims)]
    /\ UNCHANGED <<initVars, nCalls>>

\* the second probe settles; its failure leaves extractPixels
Probe2(c, readOk) ==
    /\ call[c].pc = "probe2"
    /\ LET dims == Probe(Files[call[c].data], readOk)
           cl == [call[c] EXCEPT !.probes = Append(@, [read |-> readOk, ok |-> dims.ok])]
       IN call' = [call EXCEPT ![c] =
              IF dims.ok THEN Attempt(WithDims(cl, dims), 1)
                         ELSE [cl EXCEPT !.pc = "done",
                                         !.outcome = Failure(Error("header", 0))]]
    /\ UNCHANGED <<initVars, nCalls>>

\* a plausible slip: the pixels are read at the original resolution
PixelsUnscaled(cl) ==
    [cap |-> DECODE_MAX_DIMENSIONS[cl.capIdx], width |-> cl.originalWidth,
     height |-> cl.originalHeight,
     length |-> cl.originalWidth * cl.originalHeight * 3]

\* a plausible slip: the buffer and dimensions of the first iteration are kept
PixelsFirstCap(cl) ==
    LET first == calculateScaledDimensions(
                     cl.originalWidth, cl.originalHeight, DECODE_MAX_DIMENSIONS[1])
    IN [cap |-> DECODE_MAX_DIMENSIONS[1], width |-> first.width,
        height |-> first.height, length |-> first.width * first.height * 3]

\* what extractPixels returns from a successful attempt
Pixels(cl) ==
    [cap |-> DECODE_MAX_DIMENSIONS[cl.capIdx], width |-> cl.width,
     height |-> cl.height, length |-> cl.width * cl.height * 3]

\* a plausible slip: the two sizes of the result are swapped
PixoResultSwapped(cl, px, size) ==
    [kind |-> "ok", err |-> NoError,
     width |-> px.width, height |-> px.height,
     originalWidth |-> cl.originalWidth,
     originalHeight |-> cl.originalHeight,
     compressedSize |-> Files[cl.data].size,
     originalSize |-> size]

\* the object compressWithPixo returns; size is blob.size, the byte length
\* of the Blob made of jpegBytes
PixoResult(cl, px, size) ==
    [kind |-> "ok", err |-> NoError,
     width |-> px.width, height |-> px.height,
     originalWidth |-> cl.originalWidth,
     originalHeight |-> cl.originalHeight,
     compressedSize |-> size,
     originalSize |-> Files[cl.data].size]

\* a plausible slip: encodeJpeg is called inside the try block of the retry
\* loop, so its failure moves on to the next smaller cap
EncodeInsideTry(cl, px, e) ==
    LET cl2 == [cl EXCEPT !.encodes = Append(@,
                   [rgb |-> px, width |-> px.width, height |-> px.height,
                    colorType |-> 2, quality |-> cl.quality, preset |-> 1,
                    subsampling |-> TRUE, jpegBytes |-> e])]
    IN IF e # 0
       THEN [cl2 EXCEPT !.pc = "done", !.outcome = PixoResult(cl, px, e)]
       ELSE IF IsLastCap(px.cap)
       THEN [cl2 EXCEPT !.pc = "done", !.outcome = Failure(Error("encode", 0))]
       ELSE Attempt(cl2, NextCap(cl.capIdx))

\* compressWithPixo after extractPixels returned: encodeJpeg and the result;
\* jpegBytes is the byte length encodeJpeg returned, 0 when it threw
Encode(cl, px, e) ==
    LET args == [rgb |-> px, width |-> px.width, height |-> px.height,
                 colorType |-> 2, quality |-> cl.quality, preset |-> 1,
                 subsampling |-> TRUE, jpegBytes |-> e]
        cl2 == [cl EXCEPT !.pc = "done", !.encodes = Append(@, args)]
    IN IF e = 0
       THEN [cl2 EXCEPT !.outcome = Failure(Error("encode", 0))]
       ELSE [cl2 EXCEPT !.outcome = PixoResult(cl, px, e)]

\* the ImageBitmap of one decode attempt when the attempt ends: none was
\* created when createImageBitmap rejected; bitmap.close() runs on the
\* `!ctx` path and after ctx.drawImage returned, so a throw of drawImage
\* goes to the catch block past both calls
Bitmap(o) ==
    IF o = "bitmap" THEN "none"
    ELSE IF o = "draw" THEN "open"
    ELSE "closed"

\* createImageBitmap settles: the rest of the try block, then the return
\* into compressWithPixo or the catch block and the next loop iteration
Decode(c, o, e) ==
    /\ call[c].pc = "decode"
    /\ LET maxDim == DECODE_MAX_DIMENSIONS[call[c].capIdx]
           cl == [call[c] EXCEPT !.attempts = Append(@,
                      [cap |-> maxDim, width |-> call[c].width,
                       height |-> call[c].height, outcome |-> o,
                       bitmap |-> Bitmap(o)])]
       IN call' = [call EXCEPT ![c] =
              IF o = "ok" THEN Encode(cl, Pixels(cl), e)
              ELSE IF IsLastCap(maxDim)
              THEN [cl EXCEPT !.pc = "done", !.outcome = Failure(Error(o, maxDim))]
              ELSE Attempt(cl, NextCap(cl.capIdx))]
    /\ UNCHANGED <<initVars, nCalls>>

(***************************************************************************)
(* compressImage (client.tsx), one action per synchronous run              *)
(***************************************************************************)
Max(a, b) == IF a > b THEN a ELSE b

\* isValidQuality of imageUtils.ts, the quality in hundredths
isValidQuality(q) == q >= MIN_QUALITY /\ q <= MAX_QUALITY

\* a plausible slip: only the upper end is clamped
clampQualityUpperOnly(q) == Min(MAX_QUALITY, q)

\* clampQuality of imageUtils.ts, the quality in hundredths
clampQuality(q) == Max(MIN_QUALITY, Min(MAX_QUALITY, q))

\* the qualities compressImage is called with, in hundredths: the slider's
\* and one beyond each end of the range
CanvasQualities == {MIN_QUALITY - 5, DEFAULT_QUALITY, MAX_QUALITY + 50}

\* compressImage(file, quality): the promise executor up to `img.src = blobUrl`
CallImage(c, f, q) ==
    /\ call[c].pc = "idle"
    /\ nCalls < MaxCalls
    /\ nCalls' = nCalls + 1
    /\ LET cl == [Idle EXCEPT !.fn = "compressImage", !.data = f, !.quality = q]
           rejection == Validate(Files[f].type, Files[f].size)
       IN call' = [call EXCEPT ![c] =
              IF rejection # ""
              THEN [cl EXCEPT !.pc = "done",
                              !.outcome = Failure(Error(rejection, 0))]
              ELSE [cl EXCEPT !.pc = "load"]]
    /\ UNCHANGED initVars

\* img.onerror, or img.onload up to the canvas.toBlob call; the element
\* decodes the whole file, naturalWidth / naturalHeight are its frame's
ImageLoad(c, loaded, ctxOk) ==
    /\ call[c].pc = "load"
    /\ LET natural == ParseHeader(Files[call[c].data], Files[call[c].data].size)
       IN /\ loaded => (natural.ok /\ natural.width > 0 /\ natural.height > 0)
          /\ call' = [call EXCEPT ![c] =
                 IF ~loaded
                 THEN [@ EXCEPT !.pc = "done",
                          !.outcome = Failure(Error("Failed to load image", 0))]
                 ELSE IF ~ctxOk
                 THEN [@ EXCEPT !.pc = "done",
                          !.outcome = Failure(Error("Failed to get canvas context", 0))]
                 ELSE [@ EXCEPT !.pc = "toBlob",
                          !.originalWidth = natural.width,
                          !.originalHeight = natural.height,
                          !.width = natural.width,
                          !.height = natural.height,
                          !.exports = Append(@,
                              [width |-> natural.width, height |-> natural.height,
                               type |-> "image/jpeg",
                               quality |-> clampQuality(call[c].quality),
                               blob |-> -1])]]
    /\ UNCHANGED <<initVars, nCalls>>

\* the toBlob callback: blob is the byte length of the Blob it is handed,
\* 0 when it is handed null
ToBlob(c, blob) ==
    /\ call[c].pc = "toBlob"
    /\ LET cl == [call[c] EXCEPT !.pc = "done", !.exports[1].blob = blob]
       IN call' = [call EXCEPT ![c] =
              IF blob = 0
              THEN [cl EXCEPT !.outcome = Failure(Error("Failed to compress image", 0))]
              ELSE [cl EXCEPT !.outcome =
                       [kind |-> "ok", err |-> NoError,
                        width |-> cl.width, height |-> cl.height,
                        originalWidth |-> cl.originalWidth,
                        originalHeight |-> cl.originalHeight,
                        compressedSize |-> blob,
                        originalSize |-> Files[cl.data].size]]]
    /\ UNCHANGED <<initVars, nCalls>>

\* the caller has consumed the settled call and may call again
Return(c) ==
    /\ call[c].pc = "done"
    /\ call' = [call EXCEPT ![c] = Idle]
    /\ UNCHANGED <<initVars, nCalls>>

(***************************************************************************)
(* The compress worker: self.onmessage, one run of the handler per request *)
(* message, the runs interleaving at their awaits                          *)
(***************************************************************************)
\* number of request messages the worker receives
MaxMessages == 2
\* originalWidth and originalHeight of the requests
WorkerDimensions == {<<0, 600>>, <<800, 600>>, <<8000, 6000>>}
\* quality of the requests, in hundredths
WorkerQualities == {DEFAULT_QUALITY, MAX_QUALITY + 50}
\* how the run from createImageBitmap's settling to the convertToBlob call
\* goes: "ok", or the step that fails
WorkerSteps == {"ok", "bitmap", "canvas", "context", "draw"}
\* what a platform call throws: an Error with a message or some other value
Thrown(step) ==
    {[isError |-> TRUE, message |-> step], [isError |-> FALSE, message |-> ""]}
\* `new Error(message)` of the code itself
NewError(message) == [isError |-> TRUE, message |-> message]
\* blob.size of the Blob convertToBlob resolves with
WorkerBlobSizes == {1000}

VARIABLES
    worker       \* the runs of self.onmessage in order of arrival: position,
                 \* the request's values, the bitmap and the responses posted

InitWorkerVars == worker = <<>>

\* a plausible slip: the catch block swallows the error
CatchSilent(h, err) == [h EXCEPT !.pc = "done"]

\* the catch block: self.postMessage({error})
Catch(h, err) ==
    [h EXCEPT !.pc = "done",
              !.posted = Append(@,
                  [kind |-> "error", blob |-> 0, width |-> 0, height |-> 0,
                   error |-> IF err.isError THEN err.message
                             ELSE "Compression failed in worker"])]

\* self.postMessage({blob, width, height}), the last statement of the try
PostSuccess(h, blob) ==
    [h EXCEPT !.pc = "done",
              !.posted = Append(@,
                  [kind |-> "success", blob |-> blob, width |-> h.width,
                   height |-> h.height, error |-> ""])]

\* a request message arrives: the handler up to `await createImageBitmap`
Receive(q, originalWidth, originalHeight) ==
    /\ Len(worker) < MaxMessages
    /\ LET scaled == calculateScaledDimensions(originalWidth, originalHeight,
                                               MAX_CANVAS_DIMENSION)
           h == [pc |-> "bitmap", quality |-> clampQuality(q),
                 originalWidth |-> originalWidth,
                 originalHeight |-> originalHeight,
                 width |-> scaled.width, height |-> scaled.height,
                 bitmap |-> "none", failed |-> "none", posted |-> <<>>]
       IN worker' = Append(worker,
              IF scaled.ok THEN h
              ELSE Catch([h EXCEPT !.failed = "dimensions"],
                         NewError("Width and height must be positive numbers")))

\* createImageBitmap of run m settles: new OffscreenCanvas, getContext,
\* drawImage, bitmap.close() and the convertToBlob call, or the catch block
BitmapSettle(m, step, err) ==
    /\ m \in DOMAIN worker
    /\ worker[m].pc = "bitmap"
    /\ LET h == [worker[m] EXCEPT !.failed = IF step = "ok" THEN "none" ELSE step]
       IN worker' = [worker EXCEPT ![m] =
              IF step = "bitmap" THEN Catch(h, err)
              ELSE IF step = "canvas"
              THEN Catch([h EXCEPT !.bitmap = "open"], err)
              ELSE IF step = "context"
              THEN Catch([h EXCEPT !.bitmap = "closed"],
                         NewError("Failed to get canvas context"))
              ELSE IF step = "draw"
              THEN Catch([h EXCEPT !.bitmap = "open"], err)
              ELSE [h EXCEPT !.pc = "blob", !.bitmap = "closed"]]

\* convertToBlob of run m settles: blob is blob.size, 0 when it rejected
BlobSettle(m, blob, err) ==
    /\ m \in DOMAIN worker
    /\ worker[m].pc = "blob"
    /\ worker' = [worker EXCEPT ![m] =
           IF blob = 0 THEN Catch([@ EXCEPT !.failed = "export"], err)
           ELSE PostSuccess(@, blob)]

(***************************************************************************)
(* The compressor components: PixoCompressor (pixoClient.tsx) and          *)
(* ImageCompressor (client.tsx).  A state update and the effect run it     *)
(* causes (cleanup of the previous run, then the new run) are one step.    *)
(***************************************************************************)
VARIABLES
    page,        \* "pixo" (PixoCompressor) or "canvas" (ImageCompressor)
    file,        \* useState file: a file id or "none"
    fileData,    \* useState fileData (Pixo page only)
    quality,     \* useState quality
    result,      \* useState result
    error,       \* useState error
    isLoading,   \* useState isLoading
    resultRef,   \* useRef resultRef (Canvas page): the url it holds, 0 is null
    revoked,     \* object urls passed to URL.revokeObjectURL
    reqs,        \* the runs of the compress effect that armed a timer
    live,        \* the run whose cleanup is registered, 0 if none
    reads,       \* the arrayBuffer() reads of handleFileSelect (Pixo page),
                 \* oldest first: the file read and whether it is pending
    readsAtReset \* history (SpecReads): how many reads had been started
                 \* when handleReset last ran

compVars == <<page, file, fileData, quality, result, error, isLoading,
              resultRef, revoked, reqs, live, reads, readsAtReset>>

vars == <<initVars, callVars, compVars, utilVars, worker>>

\* number of compress-effect runs that arm a timer
MaxRequests == 2
\* number of file reads handleFileSelect starts on the Pixo page
MaxReads == 2

Pages == {"pixo", "canvas"}
\* the files the user picks
Selectable == {"png", "wide", "gif", "huge"}
DefaultQuality(pg) == IF pg = "pixo" THEN PIXO_DEFAULT_QUALITY ELSE DEFAULT_QUALITY
\* the slider positions the user moves to
Slider(pg) == IF pg = "pixo" THEN {PIXO_MIN_QUALITY, PIXO_DEFAULT_QUALITY}
                             ELSE {MIN_QUALITY, DEFAULT_QUALITY}

NoResult ==
    [req |-> 0, file |-> "none", width |-> 0, height |-> 0,
     compressedSize |-> 0, originalSize |-> 0, url |-> 0]
\* error: the message shown, "" when there is none
NoMessage == ""

InitCompVars ==
    /\ page \in Pages
    /\ file = "none"
    /\ fileData = "none"
    /\ quality = DefaultQuality(page)
    /\ result = NoResult
    /\ error = NoMessage
    /\ isLoading = FALSE
    /\ resultRef = 0
    /\ revoked = {}
    /\ reqs = <<>>
    /\ live = 0
    /\ reads = <<>>
    /\ readsAtReset = 0

\* the dependency of the compress effect besides quality
Dep == IF page = "pixo" THEN fileData ELSE file

\* a run whose timer was cleared ("cleared") or whose callback has returned,
\* its outcome committed ("settled") or discarded ("dropped"): nothing of its
\* closure is read again
Finished(phase) ==
    [file |-> "none", quality |-> 0, cancelled |-> TRUE, phase |-> phase,
     awaited |-> 0]

\* a plausible slip: the cleanup leaves the timer armed
CleanupKeepsTimer(rq) ==
    IF rq.phase \in {"armed", "running"} THEN [rq EXCEPT !.cancelled = TRUE] ELSE rq

\* a plausible slip: the cleanup does not set the flag
CleanupKeepsFlag(rq) ==
    IF rq.phase = "armed" THEN Finished("cleared") ELSE rq

\* the effect's cleanup: cancelled = true; clearTimeout(timer)
Cleanup(rq) ==
    IF rq.phase = "armed" THEN Finished("cleared")
    ELSE IF rq.phase = "running" THEN [rq EXCEPT !.cancelled = TRUE]
    ELSE rq

\* the compress effect re-runs with dependencies (d, q): the registered
\* cleanup, then the effect body; primes reqs, live, isLoading
Effect(d, q) ==
    LET cleaned == [r \in DOMAIN reqs |->
                       IF r = live THEN Cleanup(reqs[r]) ELSE reqs[r]]
    IN IF d = "none"
       THEN /\ reqs' = cleaned
            /\ live' = 0
            /\ UNCHANGED isLoading
       ELSE /\ reqs' = Append(cleaned,
                   [file |-> d, quality |-> q, cancelled |-> FALSE,
                    phase |-> "armed", awaited |-> 0])
            /\ live' = Len(reqs) + 1
            /\ isLoading' = TRUE

\* a plausible slip: handleFileSelect does not validate the file
RejectionNone(f) == ""

\* the validation at the head of handleFileSelect: "" when the file passes
Rejection(f) == Validate(Files[f].type, Files[f].size)

\* a plausible slip: handleFileSelect leaves out setResult(null)
SelectFileKeepsResult(f) ==
    /\ page = "canvas"
    /\ IF Rejection(f) # ""
       THEN /\ error' = Rejection(f)
            /\ UNCHANGED <<file, result, reqs, live, isLoading>>
       ELSE /\ Len(reqs) < MaxRequests
            /\ file' = f
            /\ error' = NoMessage
            /\ Effect(f, quality)
            /\ UNCHANGED result
    /\ UNCHANGED <<page, fileData, quality, resultRef, revoked, reads, initVars>>

\* handleFileSelect of ImageCompressor
SelectFile(f) ==
    /\ page = "canvas"
    /\ IF Rejection(f) # ""
       THEN /\ error' = Rejection(f)
            /\ UNCHANGED <<file, result, reqs, live, isLoading>>
       ELSE /\ Len(reqs) < MaxRequests
            /\ file' = f
            /\ result' = NoResult
            /\ error' = NoMessage
            /\ Effect(f, quality)
    /\ UNCHANGED <<page, fileData, quality, resultRef, revoked, reads, initVars>>

\* handleFileSelect of PixoCompressor up to `await selectedFile.arrayBuffer()`
SelectFileAsync(f) ==
    /\ page = "pixo"
    /\ IF Rejection(f) # ""
       THEN /\ error' = Rejection(f)
            /\ UNCHANGED reads
       ELSE /\ Len(reads) < MaxReads
            /\ reads' = Append(reads, [file |-> f, pending |-> TRUE])
            /\ UNCHANGED error
    /\ UNCHANGED <<page, file, fileData, quality, result, isLoading,
                   resultRef, revoked, reqs, live, initVars>>

\* handleFileSelect of PixoCompressor after the read settled
ReadSettle(i, ok) ==
    /\ i \in DOMAIN reads
    /\ reads[i].pending
    /\ reads' = [reads EXCEPT ![i].pending = FALSE]
    /\ IF ok
       THEN /\ Len(reqs) < MaxRequests
            /\ file' = reads[i].file
            /\ fileData' = reads[i].file
            /\ result' = NoResult
            /\ error' = NoMessage
            /\ Effect(reads[i].file, quality)
       ELSE /\ error' = "Failed to read file"
            /\ UNCHANGED <<file, fileData, result, reqs, live, isLoading>>
    /\ UNCHANGED <<page, quality, resultRef, revoked, initVars>>

\* the slider's onInput
SetQuality(q) ==
    /\ q # quality
    /\ Dep # "none" => Len(reqs) < MaxRequests
    /\ quality' = q
    /\ Effect(Dep, q)
    /\ UNCHANGED <<page, file, fileData, result, error, resultRef, revoked,
                   reads, initVars>>

\* a plausible slip: no call of URL.revokeObjectURL
NeverRevoked(url) == revoked

\* the urls revoked once URL.revokeObjectURL(url) has been called on the
\* Canvas page; url 0 is no url, and the Pixo page makes no url
Revoked(url) ==
    IF page = "canvas" /\ url # 0 THEN revoked \cup {url} ELSE revoked

\* handleReset
Reset ==
    /\ file' = "none"
    /\ fileData' = "none"
    /\ result' = NoResult
    /\ quality' = DefaultQuality(page)
    /\ error' = NoMessage
    /\ resultRef' = 0
    /\ revoked' = Revoked(resultRef)
    /\ Effect("none", DefaultQuality(page))
    /\ UNCHANGED <<page, reads, initVars>>

\* the ErrorToast timer calls onDismiss
DismissError ==
    /\ error # ""
    /\ error' = NoMessage
    /\ UNCHANGED <<page, file, fileData, quality, result, isLoading,
                   resultRef, revoked, reqs, live, reads, initVars>>

\* the debounce timer of run r fires: the compress function is invoked
TimerFire(r) ==
    /\ r \in DOMAIN reqs
    /\ reqs[r].phase = "armed"
    /\ IF page = "pixo"
       THEN \E promise \in 1..(Len(initState) + 1) :
               /\ ensurePixoInit(promise)
               /\ reqs' = [reqs EXCEPT ![r].phase = "running",
                                       ![r].awaited = promise]
       ELSE /\ reqs' = [reqs EXCEPT ![r].phase = "running"]
            /\ UNCHANGED initVars
    /\ UNCHANGED <<page, file, fileData, quality, result, error, isLoading,
                   resultRef, revoked, live, reads>>

(***************************************************************************)
(* The helpers called while the result is rendered: whether they throw     *)
(***************************************************************************)
\* formatFileSize throws "Bytes cannot be negative"
formatFileSizeThrows(bytes) == bytes < 0

\* getCompressionRatio throws "Original size must be a positive number" or
\* "Compressed size cannot be negative"
getCompressionRatioThrows(originalSize, compressedSize) ==
    originalSize <= 0 \/ compressedSize < 0

calculateBytesSaved(originalSize, compressedSize) == originalSize - compressedSize

\* the three calls of the stats block on the result shown
RenderThrows(res) ==
    \/ formatFileSizeThrows(res.compressedSize)
    \/ getCompressionRatioThrows(res.originalSize, res.compressedSize)
    \/ formatFileSizeThrows(
          Max(0, calculateBytesSaved(res.originalSize, res.compressedSize)))

(***************************************************************************)
(* What a compress call settles with                                       *)
(***************************************************************************)
Success(f, originalWidth, originalHeight, width, height, n) ==
    [kind |-> "ok", err |-> NoError, width |-> width, height |-> height,
     originalWidth |-> originalWidth, originalHeight |-> originalHeight,
     compressedSize |-> n, originalSize |-> Files[f].size]

\* the outcomes of compressWithPixo(f, q) once initPixo() has settled
PixoOutcomes(f, initOk) ==
    LET header == getImageDimensionsFromHeader(Files[f])
        Scaled(i) == calculateScaledDimensions(
                         header.width, header.height, DECODE_MAX_DIMENSIONS[i])
    IN IF ~initOk THEN {Failure(Error("init", 0))}
       ELSE {Failure(Error("header", 0))} \cup
            IF ~header.ok THEN {}
            ELSE IF ~Scaled(1).ok THEN {Failure(Error("dimensions", 0))}
            ELSE {Failure(Error(e, DECODE_MAX_DIMENSIONS[Len(DECODE_MAX_DIMENSIONS)])) :
                      e \in DecodeErrors}
                 \cup {Failure(Error("encode", 0))}
                 \cup {Success(f, header.width, header.height,
                               Scaled(i).width, Scaled(i).height, n) :
                          i \in DOMAIN DECODE_MAX_DIMENSIONS, n \in EncodedSizes}

\* the outcomes of compressImage(f, q): the image element decodes the whole
\* file, so naturalWidth / naturalHeight are those of its frame header
CanvasOutcomes(f) ==
    LET natural == ParseHeader(Files[f], Files[f].size) IN
    IF ~isFileTypeSupported(Files[f].type)
    THEN {Failure(Error("Unsupported file type", 0))}
    ELSE IF ~isFileSizeValid(Files[f].size, MAX_FILE_SIZE)
    THEN {Failure(Error("File size exceeds limit", 0))}
    ELSE {Failure(Error("Failed to load image", 0))} \cup
         IF ~(natural.ok /\ natural.width > 0 /\ natural.height > 0) THEN {}
         ELSE {Failure(Error("Failed to get canvas context", 0)),
               Failure(Error("Failed to compress image", 0))}
              \cup {Success(f, natural.width, natural.height,
                            natural.width, natural.height, n) : n \in EncodedSizes}

\* a plausible slip: the outcome is committed without looking at the flag
CommitAlways(rq) == TRUE

\* the test `!cancelled` of the timer callback
CanCommit(rq) == ~rq.cancelled

\* the compress call of run r settles: the rest of the timer callback
Settle(r, o) ==
    /\ r \in DOMAIN reqs
    /\ reqs[r].phase = "running"
    /\ IF page = "pixo"
       THEN /\ initState[reqs[r].awaited] # "pending"
            /\ o \in PixoOutcomes(reqs[r].file,
                                  initState[reqs[r].awaited] = "resolved")
       ELSE o \in CanvasOutcomes(reqs[r].file)
    /\ reqs' = [reqs EXCEPT ![r] =
                   Finished(IF CanCommit(reqs[r]) THEN "settled" ELSE "dropped")]
    /\ IF o.kind = "ok"
       THEN IF CanCommit(reqs[r])
            THEN /\ result' =
                       [req |-> r, file |-> reqs[r].file, width |-> o.width,
                        height |-> o.height,
                        compressedSize |-> o.compressedSize,
                        originalSize |-> o.originalSize,
                        url |-> IF page = "canvas" THEN r ELSE 0]
                 /\ resultRef' = IF page = "canvas" THEN r ELSE resultRef
                 /\ revoked' = Revoked(resultRef)
                 /\ UNCHANGED error
            ELSE /\ revoked' = Revoked(r)
                 /\ UNCHANGED <<result, resultRef, error>>
       ELSE /\ error' = IF CanCommit(reqs[r]) THEN o.err.what ELSE error
            /\ UNCHANGED <<result, resultRef, revoked>>
    /\ isLoading' = IF CanCommit(reqs[r]) THEN FALSE ELSE isLoading
    /\ UNCHANGED <<page, file, fileData, quality, live, reads, initVars>>

(***************************************************************************)
(* SpecPipe: one caller, every file and every outcome of every step        *)
(***************************************************************************)
InitPipe ==
    InitPipeVars /\ InitCompVars /\ InitUtilVars /\ InitWorkerVars /\ page = "pixo"

NextPipe ==
    \/ \E d \in FileIds, q \in Qualities : Call(1, d, q) /\ UNCHANGED <<compVars, utilVars, worker>>
    \/ \E p \in 1..MaxCalls, ok \in BOOLEAN :
          InitSettle(p, ok) /\ UNCHANGED <<callVars, compVars, utilVars, worker>>
    \/ AfterInit(1) /\ UNCHANGED <<compVars, utilVars, worker>>
    \/ \E readOk \in BOOLEAN : Probe1(1, readOk) /\ UNCHANGED <<compVars, utilVars, worker>>
    \/ \E readOk \in BOOLEAN : Probe2(1, readOk) /\ UNCHANGED <<compVars, utilVars, worker>>
    \/ \E o \in DecodeOutcomes, e \in EncodeOutcomes :
          Decode(1, o, e) /\ UNCHANGED <<compVars, utilVars, worker>>
    \/ \E f \in FileIds, q \in CanvasQualities :
          CallImage(1, f, q) /\ UNCHANGED <<compVars, utilVars, worker>>
    \/ \E loaded \in BOOLEAN, ctxOk \in BOOLEAN :
          ImageLoad(1, loaded, ctxOk) /\ UNCHANGED <<compVars, utilVars, worker>>
    \/ \E blob \in EncodeOutcomes : ToBlob(1, blob) /\ UNCHANGED <<compVars, utilVars, worker>>
    \/ Return(1) /\ UNCHANGED <<compVars, utilVars, worker>>

SpecPipe == InitPipe /\ [][NextPipe]_vars

(***************************************************************************)
(* SpecInit: concurrent callers sharing pixoReady                          *)
(***************************************************************************)
NextInit ==
    \/ \E c \in Callers, d \in {"png", "gif"} :
          Call(c, d, PIXO_DEFAULT_QUALITY) /\ UNCHANGED <<compVars, utilVars, worker>>
    \/ \E p \in 1..MaxCalls, ok \in BOOLEAN :
          InitSettle(p, ok) /\ UNCHANGED <<callVars, compVars, utilVars, worker>>
    \/ \E c \in Callers : AfterInit(c) /\ UNCHANGED <<compVars, utilVars, worker>>
    \/ \E c \in Callers : Probe1(c, TRUE) /\ UNCHANGED <<compVars, utilVars, worker>>
    \/ \E c \in Callers : Probe2(c, TRUE) /\ UNCHANGED <<compVars, utilVars, worker>>
    \/ \E c \in Callers, o \in {"ok", "bitmap"} :
          Decode(c, o, 1000) /\ UNCHANGED <<compVars, utilVars, worker>>
    \/ \E c \in Callers : Return(c) /\ UNCHANGED <<compVars, utilVars, worker>>

SpecInit == InitPipe /\ [][NextInit]_vars

(***************************************************************************)
(* SpecComp: one compressor component and its user                         *)
(***************************************************************************)
InitComp == InitPipeVars /\ InitCompVars /\ InitUtilVars /\ InitWorkerVars

\* the outcomes the compress calls of the component settle with: one
\* encoded size, and the errors of the stages around the decode
CompOutcomes ==
    {o \in UNION {PixoOutcomes(f, b) : f \in Selectable, b \in BOOLEAN}
            \cup UNION {CanvasOutcomes(f) : f \in Selectable} :
        /\ o.compressedSize \in {0, 1000}
        /\ o.err.what \in {"none", "init", "header", "encode",
                           "Failed to load image", "Failed to compress image"}}

NextComp ==
    \/ \E f \in Selectable : SelectFile(f) /\ UNCHANGED <<callVars, utilVars, readsAtReset, worker>>
    \/ \E f \in Selectable : SelectFileAsync(f) /\ UNCHANGED <<callVars, utilVars, readsAtReset, worker>>
    \/ \E i \in 1..MaxReads, ok \in BOOLEAN : ReadSettle(i, ok) /\ UNCHANGED <<callVars, utilVars, readsAtReset, worker>>
    \/ \E q \in Slider(page) : SetQuality(q) /\ UNCHANGED <<callVars, utilVars, readsAtReset, worker>>
    \/ Reset /\ UNCHANGED <<callVars, utilVars, readsAtReset, worker>>
    \/ DismissError /\ UNCHANGED <<callVars, utilVars, readsAtReset, worker>>
    \/ \E r \in 1..MaxRequests : TimerFire(r) /\ UNCHANGED <<callVars, utilVars, readsAtReset, worker>>
    \/ \E r \in 1..MaxRequests, o \in CompOutcomes : Settle(r, o) /\ UNCHANGED <<callVars, utilVars, readsAtReset, worker>>
    \/ \E p \in 1..MaxRequests, ok \in BOOLEAN :
          InitSettle(p, ok) /\ UNCHANGED <<callVars, compVars, utilVars, worker>>

SpecComp == InitComp /\ [][NextComp]_vars

(***************************************************************************)
(* SpecFull: the Pixo page, its requests running compressWithPixo step by  *)
(* step; run r of the compress effect makes call r                         *)
(***************************************************************************)
\* the debounce timer of run r fires: compressWithPixo(fileData, quality)
\* of the run's closure starts
Start(r) ==
    /\ r \in Callers
    /\ TimerFire(r)
    /\ Call(r, reqs[r].file, reqs[r].quality)

\* the compressWithPixo call of run r has settled: the timer callback
\* resumes after its await
Deliver(r) ==
    /\ r \in Callers
    /\ call[r].pc = "done"
    /\ Settle(r, call[r].outcome)
    /\ Return(r)

NextFull ==
    \/ SelectFileAsync("png") /\ UNCHANGED <<callVars, utilVars, readsAtReset, worker>>
    \/ \E i \in 1..MaxReads : ReadSettle(i, TRUE) /\ UNCHANGED <<callVars, utilVars, readsAtReset, worker>>
    \/ \E q \in Slider(page) : SetQuality(q) /\ UNCHANGED <<callVars, utilVars, readsAtReset, worker>>
    \/ Reset /\ UNCHANGED <<callVars, utilVars, readsAtReset, worker>>
    \/ \E r \in 1..MaxRequests : Start(r) /\ UNCHANGED <<utilVars, readsAtReset, worker>>
    \/ \E p \in 1..MaxRequests :
          InitSettle(p, TRUE) /\ UNCHANGED <<callVars, compVars, utilVars, worker>>
    \/ \E c \in Callers : AfterInit(c) /\ UNCHANGED <<compVars, utilVars, worker>>
    \/ \E c \in Callers : Probe1(c, TRUE) /\ UNCHANGED <<compVars, utilVars, worker>>
    \/ \E c \in Callers, o \in {"ok", "bitmap"}, e \in {0, 1000} :
          Decode(c, o, e) /\ UNCHANGED <<compVars, utilVars, worker>>
    \/ \E r \in 1..MaxRequests : Deliver(r) /\ UNCHANGED <<utilVars, readsAtReset, worker>>

SpecFull == InitPipe /\ [][NextFull]_vars

(***************************************************************************)
(* The helpers of pixoUtils.ts. A typed array is a function on             *)
(* 0..length-1; a quality given to the Pixo helpers is held in tenths      *)
(* (50.6 is 506), so that Math.round has something to round                *)
(***************************************************************************)
Length(a) == Cardinality(DOMAIN a)

\* new Uint8Array(n): n zero bytes
NewUint8Array(n) == [i \in 0..(n - 1) |-> 0]

\* a[i] read from a typed array: undefined outside it, stored as 0
At(a, i) == IF i \in DOMAIN a THEN a[i] ELSE 0

\* a[i] = v on a typed array: a write outside it is dropped
Store(a, i, v) == IF i \in DOMAIN a THEN [a EXCEPT ![i] = v] ELSE a

\* a plausible slip: the input index advances by 3, not 4
RECURSIVE rgbaLoopPacked(_, _, _, _)
rgbaLoopPacked(rgba, i, j, rgb) ==
    IF ~(i < Length(rgba)) THEN rgb
    ELSE rgbaLoopPacked(rgba, i + 3, j + 3,
             Store(Store(Store(rgb, j, At(rgba, i)),
                         j + 1, At(rgba, i + 1)),
                   j + 2, At(rgba, i + 2)))

\* the for loop of rgbaToRgb from input index i and output index j on
RECURSIVE rgbaLoop(_, _, _, _)
rgbaLoop(rgba, i, j, rgb) ==
    IF ~(i < Length(rgba)) THEN rgb
    ELSE rgbaLoop(rgba, i + 4, j + 3,
             Store(Store(Store(rgb, j, At(rgba, i)),
                         j + 1, At(rgba, i + 1)),
                   j + 2, At(rgba, i + 2)))

\* pixelCount = rgba.length / 4; the array length pixelCount * 3 is
\* truncated to an integer by the Uint8Array constructor
rgbaToRgb(rgba) == rgbaLoop(rgba, 0, 0, NewUint8Array((Length(rgba) * 3) \div 4))

\* Number.isInteger, Math.round (a tie goes up) on tenths
IsInteger(q) == q % 10 = 0
MathRound(q) == ((q + 5) \div 10) * 10

isValidPixoQuality(q) ==
    /\ IsInteger(q)
    /\ q >= 10 * PIXO_MIN_QUALITY
    /\ q <= 10 * PIXO_MAX_QUALITY

\* a plausible slip: the fraction is cut off, not rounded
clampPixoQualityTruncated(q) ==
    Max(10 * PIXO_MIN_QUALITY,
        Min(10 * PIXO_MAX_QUALITY, IF q >= 0 THEN (q \div 10) * 10
                                   ELSE 0 - (((0 - q) \div 10) * 10)))

clampPixoQuality(q) ==
    Max(10 * PIXO_MIN_QUALITY, Min(10 * PIXO_MAX_QUALITY, MathRound(q)))

(***************************************************************************)
(* SpecReads: the Pixo page's file selections, their arrayBuffer() reads   *)
(* settling in any order, and resets; the compress effect arms its timers  *)
(* but none fires                                                          *)
(***************************************************************************)
\* handleReset, with the number of reads started so far noted
ResetNoted == Reset /\ readsAtReset' = Len(reads)

NextReads ==
    \/ \E f \in Selectable :
          SelectFileAsync(f) /\ UNCHANGED <<callVars, utilVars, readsAtReset, worker>>
    \/ \E i \in 1..MaxReads :
          ReadSettle(i, TRUE) /\ UNCHANGED <<callVars, utilVars, readsAtReset, worker>>
    \/ ResetNoted /\ UNCHANGED <<callVars, utilVars, worker>>
    \/ DismissError /\ UNCHANGED <<callVars, utilVars, readsAtReset, worker>>

SpecReads == InitPipe /\ [][NextReads]_vars

(***************************************************************************)
(* SpecWorker: the compress worker and the request messages it receives    *)
(***************************************************************************)
InitWorker ==
    InitPipeVars /\ InitCompVars /\ InitUtilVars /\ InitWorkerVars /\ page = "canvas"

NextWorker ==
    \/ \E q \in WorkerQualities, d \in WorkerDimensions :
          Receive(q, d[1], d[2]) /\ UNCHANGED <<initVars, callVars, compVars, utilVars>>
    \/ \E m \in 1..MaxMessages, step \in WorkerSteps : \E err \in Thrown(step) :
          BitmapSettle(m, step, err) /\ UNCHANGED <<initVars, callVars, compVars, utilVars>>
    \/ \E m \in 1..MaxMessages, blob \in {0} \cup WorkerBlobSizes, err \in Thrown("export") :
          BlobSettle(m, blob, err) /\ UNCHANGED <<initVars, callVars, compVars, utilVars>>

SpecWorker == InitWorker /\ [][NextWorker]_vars

(***************************************************************************)
(* generateCompressedFilename. A string is a sequence of characters        *)
(***************************************************************************)
DEFAULT_SUFFIX == <<"_", "c", "o", "m", "p", "r", "e", "s", "s", "e", "d">>
JpgExtension == <<".", "j", "p", "g">>

\* a plausible slip: the extension pattern is /\..+$/, which takes
\* everything from the first dot on
MatchesFromFirstDot(s, i) == s[i] = "." /\ i < Len(s)

\* /\.[^/.]+$/ matches at position i: a dot, then one or more characters
\* other than '/' and '.', then the end of the string
MatchesAt(s, i) ==
    /\ s[i] = "."
    /\ i < Len(s)
    /\ \A j \in (i + 1)..Len(s) : s[j] \notin {"/", "."}

\* String.prototype.replace(regex, ""): the leftmost match is removed
RECURSIVE ReplaceFrom(_, _)
ReplaceFrom(s, i) ==
    IF i > Len(s) THEN s
    ELSE IF MatchesAt(s, i) THEN SubSeq(s, 1, i - 1)
    ELSE ReplaceFrom(s, i + 1)

\* hasSuffix = FALSE is a call without the second argument
generateCompressedFilename(originalFilename, hasSuffix, suffix) ==
    LET nameWithoutExt == ReplaceFrom(originalFilename, 1)
    IN nameWithoutExt \o (IF hasSuffix THEN suffix ELSE DEFAULT_SUFFIX)
                      \o JpgExtension

(***************************************************************************)
(* SpecUtil: the helpers of imageUtils.ts and pixoUtils.ts applied to      *)
(* sampled arguments                                                       *)
(***************************************************************************)
\* largest small width / height sampled
MaxSide == 12
\* largest small cap sampled
MaxCap == 6
\* how often calculateScaledDimensions or clampQuality is applied to its
\* own result
MaxApplications == 2
\* most pixels of a sampled RGBA buffer, and the byte values in it
MaxPixels == 2
Bytes == {0, 255}
\* largest canvas quality sampled, in hundredths (1.6), and largest Pixo
\* quality sampled, in tenths (102.0)
MaxCanvasSample == 160
\* most segments after SOI in a sampled JPEG header
MaxSegments == 2
\* longest file name sampled, and the characters in it
MaxNameLen == 4
NameChars == {"a", ".", "/"}
MaxPixoSample == 1020

\* the widths and heights sampled: every small one, and sides around the
\* decode caps
Sides == (-1..MaxSide) \cup {1024, 4000, 4097, 8000}
\* the caps sampled: every small one, and DECODE_MAX_DIMENSIONS
Caps == (1..MaxCap) \cup {DECODE_MAX_DIMENSIONS[i] : i \in DOMAIN DECODE_MAX_DIMENSIONS}
\* content types a File may carry
TypeSamples ==
    SUPPORTED_TYPES \cup {"image/gif", "image/webp", "IMAGE/PNG", "image/jpeg ",
                          "text/plain", ""}
\* byte sizes around the bounds of isFileSizeValid
SizeSamples == {-1, 0, 1, 2, MAX_FILE_SIZE - 1, MAX_FILE_SIZE, MAX_FILE_SIZE + 1}
\* values of the maxSize parameter
MaxSizeSamples == {0, 1, 2, MAX_FILE_SIZE}

\* header buffers: PNG headers with the signature intact or damaged in one
\* position, cut to several lengths; JPEG streams of up to MaxSegments
\* segments, cut short by a few bytes; and the files of the pipeline
U16(n) == <<n \div 256, n % 256>>
U32(n) == U16(n \div 65536) \o U16(n % 65536)
Take(bs, n) == SubSeq(bs, 1, Max(0, Min(n, Len(bs))))
Buffer(type, bs) == [type |-> type, size |-> Len(bs), bytes |-> Place(0, bs)]

Signatures == {PngSignature} \cup {[PngSignature EXCEPT ![i] = 0] : i \in 1..8}
IhdrWidths == {0, 1, 800, 65539, 2130706433}
IhdrHeights == {1, 600, 16777216}
PngLengths == {0, 1, 8, 23, 24, 28}
PngHeader(sig, w, h) ==
    sig \o <<0, 0, 0, 13, 73, 72, 68, 82>> \o U32(w) \o U32(h) \o <<8, 2, 0, 0>>
PngSamples ==
    {Buffer("image/png", Take(PngHeader(sig, w, h), n)) :
        sig \in Signatures, w \in IhdrWidths, h \in IhdrHeights, n \in PngLengths}

\* SOF0, SOF2, DHT, JPG, DAC, SOF15, 0xBF, RST0, DQT, APP0
Markers == {192, 194, 196, 200, 204, 207, 191, 208, 219, 224}
\* precision, height, width, component count: 500 x 700 under SOF0,
\* 1024 x 1536 under SOF2, a size of its own under every other marker
FramePayload(marker) ==
    <<8>> \o U16(IF marker = 192 THEN 500 ELSE IF marker = 194 THEN 1024 ELSE marker)
          \o U16(IF marker = 192 THEN 700 ELSE IF marker = 194 THEN 1536 ELSE marker + 1000)
          \o <<3>>
Segment(lead, marker, payload) ==
    <<lead, marker>> \o U16(Len(payload) + 2) \o payload
SegmentSamples ==
    {Segment(255, m, FramePayload(m)) : m \in Markers}
    \cup {Segment(255, m, <<0, 0>>) : m \in Markers}
    \cup {Segment(255, 224, <<0, 0, 0, 0, 0, 0, 0, 0, 0, 0, 0, 0, 0, 0>>),
          Segment(0, 192, FramePayload(192)),
          <<255, 224, 0, 0>>}
RECURSIVE SegmentRuns(_)
SegmentRuns(n) ==
    IF n = 0 THEN {<<>>}
    ELSE LET shorter == SegmentRuns(n - 1)
         IN shorter \cup {r \o s : r \in shorter, s \in SegmentSamples}
Cuts == {0, 1, 5}
JpegSamples ==
    {Buffer("image/jpeg", Take(<<255, 216>> \o r, Len(r) + 2 - cut)) :
        r \in SegmentRuns(MaxSegments), cut \in Cuts}
HeaderSamples == PngSamples \cup JpegSamples \cup {Files[f] : f \in FileIds}

NameSamples == UNION {[1..n -> NameChars] : n \in 0..MaxNameLen}
SuffixSamples == {<<"_", "s">>, <<>>, <<".", "x">>}

RgbaSamples == UNION {[0..(4 * n - 1) -> Bytes] : n \in 0..MaxPixels}
CanvasSamples == (-100..MaxCanvasSample) \cup {200}
PixoSamples == (-105..MaxPixoSample) \cup {9990}
UtilArgs ==
    [fn : {"validate"}, type : TypeSamples, size : SizeSamples \ {-1}]
    \cup [fn : {"isFileSizeValid"}, fileSize : SizeSamples, maxSize : MaxSizeSamples]
    \cup [fn : {"calculateScaledDimensions"}, width : Sides, height : Sides,
          maxDimension : Caps]
    \cup [fn : {"rgbaToRgb"}, rgba : RgbaSamples]
    \cup [fn : {"clampQuality"}, quality : CanvasSamples]
    \cup [fn : {"clampPixoQuality"}, quality : PixoSamples]
    \cup [fn : {"getImageDimensionsFromHeader"}, file : HeaderSamples]
    \cup [fn : {"generateCompressedFilename"}, originalFilename : NameSamples,
          hasSuffix : {TRUE}, suffix : SuffixSamples]
    \cup [fn : {"generateCompressedFilename"}, originalFilename : NameSamples,
          hasSuffix : {FALSE}, suffix : {<<>>}]

InitUtil ==
    /\ InitPipeVars
    /\ InitCompVars
    /\ InitWorkerVars
    /\ page = "canvas"
    /\ helperArgs \in UtilArgs
    /\ returned = <<>>

\* the validation of handleFileSelect / compressImage on a file of this
\* type and size
ApplyValidate ==
    /\ helperArgs.fn = "validate"
    /\ returned = <<>>
    /\ returned' = <<Validate(helperArgs.type, helperArgs.size)>>
    /\ UNCHANGED helperArgs

\* isFileSizeValid(fileSize, maxSize)
ApplyIsFileSizeValid ==
    /\ helperArgs.fn = "isFileSizeValid"
    /\ returned = <<>>
    /\ returned' = <<isFileSizeValid(helperArgs.fileSize, helperArgs.maxSize)>>
    /\ UNCHANGED helperArgs

\* calculateScaledDimensions(width, height, maxDimension), then again on the
\* dimensions it returned; nothing is applied to a call that threw
ApplyCalculateScaledDimensions ==
    /\ helperArgs.fn = "calculateScaledDimensions"
    /\ Len(returned) < MaxApplications
    /\ returned # <<>> => returned[Len(returned)].ok
    /\ LET from == IF returned = <<>> THEN helperArgs ELSE returned[Len(returned)]
       IN returned' = Append(returned,
              calculateScaledDimensions(from.width, from.height, helperArgs.maxDimension))
    /\ UNCHANGED helperArgs

ApplyRgbaToRgb ==
    /\ helperArgs.fn = "rgbaToRgb"
    /\ returned = <<>>
    /\ returned' = <<rgbaToRgb(helperArgs.rgba)>>
    /\ UNCHANGED helperArgs

ApplyClampQuality ==
    /\ helperArgs.fn = "clampQuality"
    /\ Len(returned) < MaxApplications
    /\ LET from == IF returned = <<>> THEN helperArgs.quality
                   ELSE returned[Len(returned)]
       IN returned' = Append(returned, clampQuality(from))
    /\ UNCHANGED helperArgs

ApplyClampPixoQuality ==
    /\ helperArgs.fn = "clampPixoQuality"
    /\ returned = <<>>
    /\ returned' = <<clampPixoQuality(helperArgs.quality)>>
    /\ UNCHANGED helperArgs

ApplyGetImageDimensionsFromHeader ==
    /\ helperArgs.fn = "getImageDimensionsFromHeader"
    /\ returned = <<>>
    /\ returned' = <<getImageDimensionsFromHeader(helperArgs.file)>>
    /\ UNCHANGED helperArgs

ApplyGenerateCompressedFilename ==
    /\ helperArgs.fn = "generateCompressedFilename"
    /\ returned = <<>>
    /\ returned' = <<generateCompressedFilename(helperArgs.originalFilename,
                         helperArgs.hasSuffix, helperArgs.suffix)>>
    /\ UNCHANGED helperArgs

NextUtil ==
    \/ ApplyValidate /\ UNCHANGED <<initVars, callVars, compVars, worker>>
    \/ ApplyIsFileSizeValid /\ UNCHANGED <<initVars, callVars, compVars, worker>>
    \/ ApplyCalculateScaledDimensions /\ UNCHANGED <<initVars, callVars, compVars, worker>>
    \/ ApplyRgbaToRgb /\ UNCHANGED <<initVars, callVars, compVars, worker>>
    \/ ApplyClampQuality /\ UNCHANGED <<initVars, callVars, compVars, worker>>
    \/ ApplyClampPixoQuality /\ UNCHANGED <<initVars, callVars, compVars, worker>>
    \/ ApplyGetImageDimensionsFromHeader /\ UNCHANGED <<initVars, callVars, compVars, worker>>
    \/ ApplyGenerateCompressedFilename /\ UNCHANGED <<initVars, callVars, compVars, worker>>

SpecUtil == InitUtil /\ [][NextUtil]_vars

(***************************************************************************)
(* Properties of extractPixels / compressWithPixo                          *)
(***************************************************************************)
\* every outcome the step-wise pipeline reaches is one of PixoOutcomes,
\* the summary the components settle with
OutcomesAgree ==
    \A c \in Callers :
       call[c].pc = "done" =>
          IF call[c].fn = "compressWithPixo"
          THEN call[c].outcome \in
                  PixoOutcomes(call[c].data, initState[call[c].awaited] = "resolved")
          ELSE call[c].outcome \in CanvasOutcomes(call[c].data)

LastCap == DECODE_MAX_DIMENSIONS[Len(DECODE_MAX_DIMENSIONS)]
Failed(a, n) == \A i \in 1..n : a[i].outcome # "ok"
Last(a) == a[Len(a)]

\* C2: the decode is attempted at the caps 4096, 2048, 1024 in strictly
\* descending order, each at most once; the attempt at the next smaller cap
\* is started only after every earlier attempt failed, and none is started
\* after a successful one.
C2_DescendingAttempts ==
    /\ \A i, j \in DOMAIN DECODE_MAX_DIMENSIONS :
          i < j => DECODE_MAX_DIMENSIONS[i] > DECODE_MAX_DIMENSIONS[j]
    /\ \A c \in Callers :
          LET a == call[c].attempts IN
          /\ Len(a) <= Len(DECODE_MAX_DIMENSIONS)
          /\ \A i \in 1..Len(a) : a[i].cap = DECODE_MAX_DIMENSIONS[i]
          /\ Failed(a, Len(a) - 1)
          /\ call[c].pc = "decode" =>
                /\ call[c].capIdx = Len(a) + 1
                /\ call[c].capIdx <= Len(DECODE_MAX_DIMENSIONS)
                /\ Failed(a, Len(a))
          /\ (Len(a) > 0 /\ Last(a).outcome = "ok") => call[c].pc = "done"

C2_Witness ==
    \E c \in Callers :
       /\ call[c].pc = "done"
       /\ Len(call[c].attempts) = 3
       /\ call[c].attempts[2].outcome # "ok"
       /\ call[c].attempts[3].outcome = "ok"

\* C3: when the decode fails at every cap, extractPixels fails with the
\* error raised by the last attempt (cap 1024), not with an earlier
\* attempt's error and not with the generic error thrown after the loop.
C3_LastErrorSurfaced ==
    \A c \in Callers :
       LET a == call[c].attempts IN
       (Len(a) = Len(DECODE_MAX_DIMENSIONS) /\ Failed(a, Len(a))) =>
          /\ call[c].pc = "done"
          /\ call[c].outcome.kind = "error"
          /\ call[c].outcome.err = Error(Last(a).outcome, LastCap)
          /\ call[c].outcome.err.cap = 1024
          /\ call[c].outcome.err.what # "exhausted"

C3_Witness ==
    \E c \in Callers :
       LET a == call[c].attempts IN
       /\ Len(a) = 3
       /\ a[1].outcome = "bitmap"
       /\ a[2].outcome = "read"
       /\ a[3].outcome = "context"
       /\ call[c].outcome.err = Error("context", 1024)

\* C4: the width and height of every successful compressWithPixo result are
\* calculateScaledDimensions(originalWidth, originalHeight, c) for the first
\* cap c whose attempt succeeded, the original dimensions being those of
\* the header; 8000x4000 succeeding at the first attempt gives 4096x2048.
C4_ResultDimensions ==
    \A c \in Callers :
       (/\ call[c].fn = "compressWithPixo"
        /\ call[c].pc = "done"
        /\ call[c].outcome.kind = "ok") =>
          LET a == call[c].attempts
              r == call[c].outcome
              header == getImageDimensionsFromHeader(Files[call[c].data])
              scaled == calculateScaledDimensions(
                            header.width, header.height, Last(a).cap)
          IN /\ Len(a) >= 1
             /\ Last(a).outcome = "ok"
             /\ Failed(a, Len(a) - 1)
             /\ r.originalWidth = header.width
             /\ r.originalHeight = header.height
             /\ scaled.ok
             /\ r.width = scaled.width
             /\ r.height = scaled.height
             /\ (header.width = 8000 /\ header.height = 4000 /\ Len(a) = 1) =>
                   (r.width = 4096 /\ r.height = 2048)

C4_Witness ==
    \E c \in Callers :
       /\ call[c].pc = "done"
       /\ call[c].outcome.kind = "ok"
       /\ call[c].data = "wide"
       /\ Len(call[c].attempts) = 1
       /\ call[c].outcome.width = 4096
       /\ call[c].outcome.height = 2048

\* C5: encodeJpeg is invoked only after a decode attempt succeeded, at most
\* once per call, with the buffer and the dimensions of that attempt; no
\* buffer or dimensions of a failed higher-cap attempt reach it, and when
\* every attempt fails it is not invoked.
C5_EncoderInput ==
    \A c \in Callers :
       LET a == call[c].attempts
           en == call[c].encodes
       IN /\ Len(en) <= 1
          /\ Failed(a, Len(a)) => en = <<>>
          /\ Len(en) = 1 =>
                /\ Len(a) >= 1
                /\ Last(a).outcome = "ok"
                /\ en[1].rgb.cap = Last(a).cap
                /\ en[1].rgb.width = Last(a).width
                /\ en[1].rgb.height = Last(a).height
                /\ en[1].rgb.length = Last(a).width * Last(a).height * 3
                /\ en[1].width = Last(a).width
                /\ en[1].height = Last(a).height
                /\ \A i \in 1..(Len(a) - 1) : en[1].rgb.cap # a[i].cap

C5_Witness ==
    \E c \in Callers :
       LET a == call[c].attempts IN
       /\ call[c].data = "wide"
       /\ Len(a) = 3
       /\ a[1].outcome # "ok"
       /\ a[2].outcome # "ok"
       /\ a[3].outcome = "ok"
       /\ Len(call[c].encodes) = 1
       /\ call[c].encodes[1].width = 1024
       /\ call[c].encodes[1].height = 512

\* C7: initPixo is invoked at most once over all compressWithPixo calls,
\* also when calls start before the first initialisation has completed,
\* and every call awaits that one promise.
C7_SingleInit ==
    /\ initCalls <= 1
    /\ Len(initState) = initCalls
    /\ \A c \in Callers :
          call[c].pc # "idle" => (call[c].awaited = 1 /\ pixoReady = 1)

C7_Witness ==
    /\ initCalls = 1
    /\ initState[1] = "pending"
    /\ \E c1, c2 \in Callers :
          /\ c1 # c2
          /\ call[c1].pc = "init"
          /\ call[c2].pc = "init"

\* C9: when the fast probe fails, the second probe reads the full byte
\* sequence, so a file whose header parses over its full length (a JPEG
\* whose SOF segment lies beyond the fast-path prefix) yields its
\* dimensions instead of a header-parse failure.
C9_FullScanFallback ==
    \A c \in Callers :
       LET f == Files[call[c].data]
           full == ParseHeader(f, f.size)
       IN (/\ Len(call[c].probes) = 2
           /\ call[c].probes[1].read
           /\ call[c].probes[2].read
           /\ full.ok) =>
              /\ call[c].probes[2].ok
              /\ call[c].outcome.err.what # "header"
              /\ call[c].originalWidth = full.width
              /\ call[c].originalHeight = full.height

\* C10: the second probe runs only if the first failed; a header-parse
\* failure leaves the pipeline only after both probes failed, and then no
\* decode attempt and no encode has been made.
C10_HeaderFailure ==
    \A c \in Callers :
       LET pr == call[c].probes IN
       /\ Len(pr) <= 2
       /\ call[c].pc = "probe2" => (Len(pr) = 1 /\ ~pr[1].ok)
       /\ Len(pr) = 2 => ~pr[1].ok
       /\ call[c].outcome.err.what = "header" =>
             /\ call[c].pc = "done"
             /\ Len(pr) = 2
             /\ ~pr[1].ok
             /\ ~pr[2].ok
             /\ call[c].attempts = <<>>
             /\ call[c].encodes = <<>>
             /\ call[c].capIdx = 0

C10_Witness ==
    \E c \in Callers :
       /\ call[c].pc = "done"
       /\ call[c].outcome.err.what = "header"
       /\ Len(call[c].probes) = 2
       /\ call[c].probes[1].read
       /\ call[c].probes[2].read

(***************************************************************************)
(* Properties of the compressor components                                 *)
(***************************************************************************)
Pending(r) == reqs[r].phase \in {"armed", "running"}
Over(phase) == phase \in {"settled", "dropped"}

\* request r is superseded: a newer request exists, or the file or the
\* quality it was made for is no longer the component's (changed, or reset)
Superseded(r) ==
    /\ Pending(r)
    /\ \/ r # Len(reqs)
       \/ reqs[r].file # Dep
       \/ reqs[r].quality # quality

\* C1: a compression request superseded before it completed (file or
\* quality changed, or reset) never commits its outcome: when it completes,
\* `result` and `error` keep their values, so only the latest request's
\* outcome can be committed.
C1_NoStaleCommit ==
    [][\A r \in DOMAIN reqs :
          (reqs[r].phase = "running" /\ Over(reqs'[r].phase)) =>
             /\ Superseded(r) => (result' = result /\ error' = error)
             /\ (result' # result \/ error' # error) =>
                   (r = Len(reqs) /\ reqs[r].file = Dep /\ reqs[r].quality = quality)
      ]_vars

C1_Witness ==
    \E r \in DOMAIN reqs :
       /\ reqs[r].phase = "dropped"
       /\ result.req # r
       /\ r < Len(reqs)
       /\ reqs[Len(reqs)].phase = "settled"

\* C6: a request replaced by a newer one (quality or file change) before
\* its debounce delay elapsed is never started: its timer is cleared in
\* the step that replaces it, a cleared timer stays cleared, and the
\* compress function is never invoked for it.
C6_NeverStarted ==
    [][\A r \in DOMAIN reqs :
          /\ reqs[r].phase = "cleared" => reqs'[r].phase = "cleared"
          /\ (/\ reqs[r].phase = "armed"
              /\ \/ r # Len(reqs')
                 \/ reqs[r].file # Dep'
                 \/ reqs[r].quality # quality') => reqs'[r].phase = "cleared"
          /\ (reqs[r].phase = "armed" /\ Superseded(r)) =>
                reqs'[r].phase # "running"
      ]_vars

C6_Witness ==
    \E r \in DOMAIN reqs :
       /\ reqs[r].phase = "cleared"
       /\ r < Len(reqs)
       /\ reqs[Len(reqs)].phase = "settled"
       /\ result.req = Len(reqs)

\* C8 (as claimed): at most one compress invocation is executing per
\* component at any time.
C8_SingleInvocation ==
    Cardinality({r \in DOMAIN reqs : reqs[r].phase = "running"}) <= 1

\* C8 (amended): at most one request that is not superseded is pending or
\* running per component, and it is the latest one; every other invocation
\* still running is a superseded one whose outcome will be discarded.
C8_SingleLiveRequest ==
    /\ Cardinality({r \in DOMAIN reqs : Pending(r) /\ ~reqs[r].cancelled}) <= 1
    /\ \A r \in DOMAIN reqs :
          Pending(r) =>
             IF reqs[r].cancelled
             THEN reqs[r].phase = "running" /\ Superseded(r)
             ELSE r = Len(reqs) /\ r = live /\ ~Superseded(r)

C8_Witness ==
    \E r1, r2 \in DOMAIN reqs :
       /\ r1 < r2
       /\ reqs[r1].phase = "running"
       /\ reqs[r1].cancelled
       /\ reqs[r2].phase = "running"
       /\ ~reqs[r2].cancelled

\* a file the validation must refuse
Invalid(f) ==
    \/ Files[f].type \notin {"image/jpeg", "image/jpg", "image/png"}
    \/ Files[f].size <= 0
    \/ Files[f].size > 15 * 1024 * 1024

\* C11: handleFileSelect called with a file of unsupported type or invalid
\* size sets the error message in that same step and leaves file, fileData,
\* result and quality unchanged; no read, no request (hence no probe, decode
\* or encode) is ever started for such a file, in that step or later.
C11_RejectedUntouched ==
    [][/\ \A f \in {g \in Selectable : Invalid(g)} :
             (SelectFile(f) \/ SelectFileAsync(f)) =>
                /\ error' \in {"Unsupported file type", "File size exceeds limit"}
                /\ UNCHANGED <<file, fileData, result, quality>>
                /\ UNCHANGED <<reqs, live, reads, isLoading>>
       /\ file' = "none" \/ ~Invalid(file')
       /\ fileData' = "none" \/ ~Invalid(fileData')
       /\ \A i \in DOMAIN reads' : ~Invalid(reads'[i].file)
       /\ \A r \in DOMAIN reqs' :
             reqs'[r].file = "none" \/ ~Invalid(reqs'[r].file)
      ]_vars

C11_Witness ==
    /\ error \in {"Unsupported file type", "File size exceeds limit"}
    /\ file # "none"
    /\ result # NoResult
    /\ result.file = file

(***************************************************************************)
(* Properties of the helpers of imageUtils.ts                              *)
(***************************************************************************)
\* C12: a file is accepted if and only if its content type is exactly one
\* of image/jpeg, image/jpg, image/png and its size s has 0 < s <= 15 MiB
\* (the limit is accepted, limit + 1 and 0 are rejected), and
\* isFileSizeValid(s, max) is true exactly when 0 < s <= max.
C12_Acceptance ==
    /\ (helperArgs.fn = "validate" /\ returned # <<>>) =>
          ((returned[1] = "") <=>
              (/\ helperArgs.type \in {"image/jpeg", "image/jpg", "image/png"}
               /\ 0 < helperArgs.size
               /\ helperArgs.size <= 15728640))
    /\ (helperArgs.fn = "isFileSizeValid" /\ returned # <<>>) =>
          (returned[1] <=> (0 < helperArgs.fileSize /\ helperArgs.fileSize <= helperArgs.maxSize))

C12_Witness ==
    /\ helperArgs.fn = "validate"
    /\ helperArgs.type = "image/jpg"
    /\ helperArgs.size = 15728640
    /\ returned = <<"">>

(***************************************************************************)
(* Properties of the results of compressWithPixo and compressImage         *)
(***************************************************************************)
\* C13: every result returned by compressWithPixo and by compressImage has
\* compressedSize equal to the byte length of the encoded output it carries
\* (what encodeJpeg returned, the Blob toBlob delivered) and originalSize
\* equal to the byte size of the input it was computed from.
C13_ResultSizes ==
    \A c \in Callers :
       (call[c].pc = "done" /\ call[c].outcome.kind = "ok") =>
          /\ call[c].outcome.originalSize = Files[call[c].data].size
          /\ call[c].fn = "compressWithPixo" =>
                /\ Len(call[c].encodes) = 1
                /\ call[c].outcome.compressedSize = call[c].encodes[1].jpegBytes
          /\ call[c].fn = "compressImage" =>
                /\ Len(call[c].exports) = 1
                /\ call[c].outcome.compressedSize = call[c].exports[1].blob

C13_Witness ==
    \E c \in Callers :
       /\ call[c].fn = "compressWithPixo"
       /\ call[c].pc = "done"
       /\ call[c].data = "png"
       /\ call[c].outcome.kind = "ok"
       /\ call[c].outcome.compressedSize = 6000000
       /\ call[c].outcome.originalSize = 28

(***************************************************************************)
(* Properties of the Pixo page running compressWithPixo step by step       *)
(***************************************************************************)
\* the last encodeJpeg call of this compressWithPixo call threw
EncoderFailed(cl) ==
    /\ cl.encodes # <<>>
    /\ cl.encodes[Len(cl.encodes)].jpegBytes = 0

\* C14: if the encoder fails after a successful decode, the compress call
\* fails with the encoder's error: no decode attempt at a smaller cap and
\* no second encode call follows, no result is produced, and when the
\* failure is delivered the component's `result` keeps its value.
C14_EncodeFailureFinal ==
    [][\A r \in Callers :
          /\ EncoderFailed(call'[r]) =>
                /\ call'[r].pc = "done"
                /\ call'[r].outcome = Failure(Error("encode", 0))
                /\ Len(call'[r].encodes) = 1
                /\ Last(call'[r].attempts).outcome = "ok"
                /\ Failed(call'[r].attempts, Len(call'[r].attempts) - 1)
          /\ (EncoderFailed(call[r]) /\ call'[r] # call[r]) =>
                /\ call'[r].pc = "idle"
                /\ result' = result
                /\ error' = IF reqs[r].cancelled THEN error ELSE "encode"
      ]_vars

C14_Witness ==
    /\ Len(reqs) = 2
    /\ reqs[2].phase = "settled"
    /\ error = "encode"
    /\ result # NoResult
    /\ result.req = 1
    /\ result.file = fileData

(***************************************************************************)
(* Properties of extractPixels on a header without positive dimensions     *)
(***************************************************************************)
\* C15: if the probed original width or height is not positive,
\* extractPixels fails with the invalid-dimensions error of
\* calculateScaledDimensions before any decode attempt is made, and the
\* failure is not retried at the smaller caps.
C15_InvalidDimensionsFatal ==
    \A c \in Callers :
       LET cl == call[c] IN
       /\ (/\ cl.fn = "compressWithPixo"
           /\ cl.probes # <<>>
           /\ cl.probes[Len(cl.probes)].ok
           /\ (cl.originalWidth <= 0 \/ cl.originalHeight <= 0)) =>
              /\ cl.pc = "done"
              /\ cl.outcome = Failure(Error("dimensions", 0))
              /\ cl.attempts = <<>>
              /\ cl.encodes = <<>>
              /\ cl.capIdx = 0
       /\ cl.outcome.err.what = "dimensions" =>
              (cl.originalWidth <= 0 \/ cl.originalHeight <= 0)

C15_Witness ==
    \E c \in Callers :
       /\ call[c].pc = "done"
       /\ call[c].data = "zero"
       /\ Len(call[c].probes) = 1
       /\ call[c].originalWidth = 0
       /\ call[c].originalHeight = 600
       /\ call[c].outcome.err.what = "dimensions"

(***************************************************************************)
(* Properties of the quality handed to the encoders                        *)
(***************************************************************************)
\* C16 (as claimed): for any quality given to a compress operation, the
\* quality handed to the backend encoder lies in that backend's native
\* domain: canvas.toBlob receives a value in [0.1, 1.0], and encodeJpeg
\* receives an integer in [1, 100], the requested quality clamped.
C16_NativeQuality ==
    \A c \in Callers :
       /\ \A i \in DOMAIN call[c].exports :
             /\ call[c].exports[i].quality >= 10
             /\ call[c].exports[i].quality <= 100
       /\ \A i \in DOMAIN call[c].encodes :
             /\ call[c].encodes[i].quality >= 1
             /\ call[c].encodes[i].quality <= 100
             /\ call[c].encodes[i].quality =
                   Max(1, Min(100, call[c].quality))

\* C17 (as claimed): on the Pixo page pixels are extracted once per
\* selected file: once a result for the held file has been committed, a
\* later request for that file (a quality change) only re-runs the encoder
\* and makes no decode attempt.
C17_DecodeOnce ==
    \A r \in Callers :
       (/\ result # NoResult
        /\ result.file = fileData
        /\ call[r].fn = "compressWithPixo"
        /\ call[r].data = result.file
        /\ r > result.req) =>
           /\ call[r].pc # "decode"
           /\ call[r].attempts = <<>>

(***************************************************************************)
(* Properties of the resolution of the results                             *)
(***************************************************************************)
\* C18 (as claimed): every compression result produced by either backend
\* (compressImage of the Canvas page, compressWithPixo of the Pixo page)
\* has max(width, height) <= 4096, whatever the source dimensions.
C18_ResultCapped ==
    \A c \in Callers :
       (call[c].pc = "done" /\ call[c].outcome.kind = "ok") =>
          /\ call[c].outcome.width <= 4096
          /\ call[c].outcome.height <= 4096

(***************************************************************************)
(* Properties of calculateScaledDimensions                                 *)
(***************************************************************************)
\* the call under study is calculateScaledDimensions with positive
\* width, height and cap
ScalesPositive ==
    /\ helperArgs.fn = "calculateScaledDimensions"
    /\ helperArgs.width > 0
    /\ helperArgs.height > 0
    /\ helperArgs.maxDimension > 0

\* C19: for all width > 0, height > 0 and cap > 0,
\* calculateScaledDimensions(width, height, cap) returns dimensions with
\* max(result.width, result.height) <= cap.
C19_ScaledWithinCap ==
    (ScalesPositive /\ returned # <<>>) =>
       /\ returned[1].ok
       /\ returned[1].width <= helperArgs.maxDimension
       /\ returned[1].height <= helperArgs.maxDimension

C19_Witness ==
    /\ ScalesPositive
    /\ helperArgs.width = 12
    /\ helperArgs.height = 11
    /\ helperArgs.maxDimension = 6
    /\ returned # <<>>
    /\ returned[1] = [ok |-> TRUE, width |-> 6, height |-> 6]

\* C20 (as claimed): calculateScaledDimensions is idempotent: for all
\* width > 0, height > 0 and cap > 0, applying it again to its own result
\* with the same cap succeeds and returns that same result.
C20_Idempotent ==
    (ScalesPositive /\ Len(returned) >= 2) =>
       /\ returned[2].ok
       /\ returned[2] = returned[1]

\* n is a / b * c rounded to the nearest integer (a tie goes up), so n is
\* less than 1 away from the exact value a * c / b
IsRounded(n, a, b, c) ==
    /\ 2 * n * b - b <= 2 * a * c
    /\ 2 * a * c < 2 * n * b + b
    /\ n * b - a * c < b
    /\ a * c - n * b < b

\* C21: calculateScaledDimensions(w, h, cap) with w, h > 0 returns (w, h)
\* unchanged when both are <= cap; otherwise the larger side becomes exactly
\* cap and the other side round(other / larger * cap), a square input giving
\* (cap, cap), so the other side is less than 1 away from the exact
\* aspect-preserving value.
C21_ScaleLaw ==
    (ScalesPositive /\ returned # <<>>) =>
       LET w == helperArgs.width
           h == helperArgs.height
           cap == helperArgs.maxDimension
           r == returned[1]
       IN /\ r.ok
          /\ (w <= cap /\ h <= cap) => (r.width = w /\ r.height = h)
          /\ (~(w <= cap /\ h <= cap) /\ w > h) =>
                (r.width = cap /\ IsRounded(r.height, h, w, cap))
          /\ (~(w <= cap /\ h <= cap) /\ h > w) =>
                (r.height = cap /\ IsRounded(r.width, w, h, cap))
          /\ (~(w <= cap /\ h <= cap) /\ w = h) =>
                (r.width = cap /\ r.height = cap)

C21_Witness ==
    /\ ScalesPositive
    /\ helperArgs.width = 8000
    /\ helperArgs.height = 4000
    /\ helperArgs.maxDimension = 4096
    /\ returned # <<>>
    /\ returned[1] = [ok |-> TRUE, width |-> 4096, height |-> 2048]

\* C22: calculateScaledDimensions fails with the invalid-dimensions error
\* whenever width <= 0 or height <= 0, for every cap, and returns no
\* dimensions in that case.
C22_NonPositiveThrows ==
    (/\ helperArgs.fn = "calculateScaledDimensions"
     /\ (helperArgs.width <= 0 \/ helperArgs.height <= 0)
     /\ returned # <<>>) =>
       /\ ~returned[1].ok
       /\ returned[1] = NoDims
       /\ Len(returned) = 1

C22_Witness ==
    /\ helperArgs.fn = "calculateScaledDimensions"
    /\ helperArgs.width = 0
    /\ helperArgs.height = 12
    /\ helperArgs.maxDimension = 4096
    /\ returned = <<NoDims>>

\* C23 (as claimed): every Dimensions value calculateScaledDimensions
\* produces for width > 0, height > 0 and cap > 0 has width > 0 and
\* height > 0.
C23_ResultPositive ==
    (ScalesPositive /\ returned # <<>> /\ returned[1].ok) =>
       /\ returned[1].width > 0
       /\ returned[1].height > 0

(***************************************************************************)
(* Properties of rgbaToRgb, clampQuality and clampPixoQuality              *)
(***************************************************************************)
\* the buffer with the alpha byte of pixel p replaced by a
WithAlpha(rgba, p, a) == [rgba EXCEPT ![4 * p + 3] = a]

\* C24: rgbaToRgb on an input of 4n bytes returns exactly 3n bytes with
\* out[3p+k] = in[4p+k] for every pixel p < n and k in {0, 1, 2}; empty
\* input gives empty output, and inputs that differ only in their alpha
\* bytes give identical outputs.
C24_StripAlpha ==
    (helperArgs.fn = "rgbaToRgb" /\ returned # <<>>) =>
       LET in == helperArgs.rgba
           out == returned[1]
           n == Cardinality(DOMAIN in) \div 4
       IN /\ DOMAIN out = 0..(3 * n - 1)
          /\ \A p \in 0..(n - 1) : \A k \in {0, 1, 2} :
                out[3 * p + k] = in[4 * p + k]
          /\ (n = 0) => (DOMAIN out = {})
          /\ \A p \in 0..(n - 1) : \A a \in Bytes :
                rgbaToRgb(WithAlpha(in, p, a)) = out

C24_Witness ==
    /\ helperArgs.fn = "rgbaToRgb"
    /\ helperArgs.rgba = [i \in 0..7 |-> IF i \in {0, 3, 5, 6} THEN 255 ELSE 0]
    /\ returned = <<[j \in 0..5 |-> IF j \in {0, 4, 5} THEN 255 ELSE 0]>>

\* C25: clampQuality(q) returns q unchanged when 0.1 <= q <= 1.0, 0.1 when
\* q < 0.1 and 1.0 when q > 1.0; its result always satisfies isValidQuality
\* and clampQuality is idempotent.
C25_ClampLaw ==
    (helperArgs.fn = "clampQuality" /\ returned # <<>>) =>
       LET q == helperArgs.quality
       IN /\ (10 <= q /\ q <= 100) => returned[1] = q
          /\ (q < 10) => returned[1] = 10
          /\ (q > 100) => returned[1] = 100
          /\ isValidQuality(returned[1])
          /\ Len(returned) >= 2 => returned[2] = returned[1]

C25_Witness ==
    /\ helperArgs.fn = "clampQuality"
    /\ helperArgs.quality = 5
    /\ returned = <<10, 10>>

\* C26: clampPixoQuality(q) rounds q to the nearest integer and then clamps
\* to [1, 100] (0 -> 1, 101 -> 100, 50.6 -> 51, 0.4 -> 1, 100.6 -> 100);
\* for every finite q its result satisfies isValidPixoQuality, and it is
\* the identity on integers in [1, 100].
C26_RoundThenClamp ==
    (helperArgs.fn = "clampPixoQuality" /\ returned # <<>>) =>
       LET q == helperArgs.quality
           r == returned[1]
       IN /\ \E k \in -20..1000 :
                /\ 10 * k - 5 <= q
                /\ q < 10 * k + 5
                /\ r = 10 * (IF k < 1 THEN 1 ELSE IF k > 100 THEN 100 ELSE k)
          /\ isValidPixoQuality(r)
          /\ (q % 10 = 0 /\ 10 <= q /\ q <= 1000) => r = q
          /\ (q = 0) => r = 10
          /\ (q = 1010) => r = 1000
          /\ (q = 506) => r = 510
          /\ (q = 4) => r = 10
          /\ (q = 1006) => r = 1000

C26_Witness ==
    /\ helperArgs.fn = "clampPixoQuality"
    /\ helperArgs.quality = 506
    /\ returned = <<510>>

(***************************************************************************)
(* Properties of getImageDimensionsFromHeader. The buffer is the first     *)
(* HEADER_SLICE bytes of the file; the formulas read its bytes directly    *)
(***************************************************************************)
HeaderCalled ==
    /\ helperArgs.fn = "getImageDimensionsFromHeader"
    /\ returned # <<>>

BufferLength(b) == Min(b.size, HEADER_SLICE)
ByteAt(b, i) == IF i \in DOMAIN b.bytes THEN b.bytes[i] ELSE 0
BigEndian16(b, i) == 256 * ByteAt(b, i) + ByteAt(b, i + 1)
BigEndian32(b, i) ==
    16777216 * ByteAt(b, i) + 65536 * ByteAt(b, i + 1)
       + 256 * ByteAt(b, i + 2) + ByteAt(b, i + 3)
StartsWith(b, bs) ==
    /\ BufferLength(b) >= Len(bs)
    /\ \A i \in 1..Len(bs) : ByteAt(b, i - 1) = bs[i]
SOI == <<255, 216>>

\* frame-header markers: 0xC0..0xCF without 0xC4, 0xC8, 0xCC
FrameMarkers == (192..207) \ {196, 200, 204}

\* where the segment walk from offset ends: at a frame-header segment that
\* lies in the buffer, at a byte other than 0xFF, or at the buffer's end
RECURSIVE SegmentWalk(_, _)
SegmentWalk(b, offset) ==
    IF offset + 4 >= BufferLength(b)
    THEN [kind |-> "exhausted", offset |-> offset]
    ELSE IF ByteAt(b, offset) # 255
    THEN [kind |-> "not 0xFF", offset |-> offset]
    ELSE IF ByteAt(b, offset + 1) \in FrameMarkers
    THEN [kind |-> IF offset + 9 <= BufferLength(b) THEN "frame" ELSE "exhausted",
          offset |-> offset]
    ELSE SegmentWalk(b, offset + 2 + BigEndian16(b, offset + 2))

\* C27: on a buffer of at least 24 bytes that starts with the PNG
\* signature, getImageDimensionsFromHeader returns width = the big-endian
\* 32-bit integer at offset 16 and height = the one at offset 20.
C27_PngDimensions ==
    (/\ HeaderCalled
     /\ BufferLength(helperArgs.file) >= 24
     /\ StartsWith(helperArgs.file, PngSignature)) =>
       /\ returned[1].ok
       /\ returned[1].width = BigEndian32(helperArgs.file, 16)
       /\ returned[1].height = BigEndian32(helperArgs.file, 20)

C27_Witness ==
    /\ HeaderCalled
    /\ helperArgs.file = Buffer("image/png", PngHeader(PngSignature, 800, 600))
    /\ returned = <<[ok |-> TRUE, width |-> 800, height |-> 600]>>

\* C28 (as claimed): getImageDimensionsFromHeader returns dimensions read
\* from the PNG offsets only when all 8 bytes of the PNG signature are
\* present; a buffer whose first 8 bytes differ from the signature in any
\* position is not treated as a PNG.
C28_FullSignature ==
    (/\ HeaderCalled
     /\ returned[1].ok
     /\ ~StartsWith(helperArgs.file, SOI)) =>
       StartsWith(helperArgs.file, PngSignature)

\* C29: for a buffer starting with the JPEG SOI marker,
\* getImageDimensionsFromHeader walks the segments from offset 2, advancing
\* by 2 + segmentLength, and at the first segment whose marker is a
\* frame-header marker returns height = big-endian 16-bit at offset + 5 and
\* width = big-endian 16-bit at offset + 7; 0xC4, 0xC8, 0xCC and all markers
\* outside 0xC0..0xCF are skipped.
C29_JpegDimensions ==
    (HeaderCalled /\ StartsWith(helperArgs.file, SOI)) =>
       LET end == SegmentWalk(helperArgs.file, 2)
       IN (end.kind = "frame") =>
             /\ returned[1].ok
             /\ returned[1].height = BigEndian16(helperArgs.file, end.offset + 5)
             /\ returned[1].width = BigEndian16(helperArgs.file, end.offset + 7)

C29_Witness ==
    /\ HeaderCalled
    /\ helperArgs.file =
          Buffer("image/jpeg", SOI \o Segment(255, 196, FramePayload(196))
                                   \o Segment(255, 194, FramePayload(194)))
    /\ returned = <<[ok |-> TRUE, width |-> 1536, height |-> 1024]>>

\* the failures of C30 that do not depend on bytes 2..7 of the PNG
\* signature: an empty buffer, a buffer that starts with neither
\* 0x89 0x50 nor 0xFF 0xD8, a PNG shorter than 24 bytes, a JPEG whose walk
\* does not end at a frame-header segment
HeaderFailuresApartFromSignature ==
    (/\ HeaderCalled
     /\ \/ BufferLength(helperArgs.file) = 0
        \/ /\ ~StartsWith(helperArgs.file, <<137, 80>>)
           /\ ~StartsWith(helperArgs.file, SOI)
        \/ /\ ByteAt(helperArgs.file, 0) = 137
           /\ BufferLength(helperArgs.file) < 24
        \/ /\ StartsWith(helperArgs.file, SOI)
           /\ SegmentWalk(helperArgs.file, 2).kind # "frame") =>
       returned[1] = NoDims

\* C30 (as claimed): getImageDimensionsFromHeader fails with the
\* header-parse error and returns no dimensions for an empty buffer, for a
\* buffer with neither the PNG nor the JPEG signature, for a PNG shorter
\* than 24 bytes, and for a JPEG whose segment walk meets a byte other than
\* 0xFF at a segment start or exhausts the buffer before a frame-header
\* segment.
C30_HeaderFailures ==
    (/\ HeaderCalled
     /\ \/ BufferLength(helperArgs.file) = 0
        \/ /\ ~StartsWith(helperArgs.file, PngSignature)
           /\ ~StartsWith(helperArgs.file, SOI)
        \/ /\ StartsWith(helperArgs.file, PngSignature)
           /\ BufferLength(helperArgs.file) < 24
        \/ /\ StartsWith(helperArgs.file, SOI)
           /\ SegmentWalk(helperArgs.file, 2).kind # "frame") =>
       returned[1] = NoDims

(***************************************************************************)
(* Properties of generateCompressedFilename                                *)
(***************************************************************************)
\* the positions of the dots of a name, and whether the name ends in an
\* extension: its last dot is followed by at least one character and by no
\* '/'
Dots(s) == {i \in 1..Len(s) : s[i] = "."}
LastDot(s) == CHOOSE i \in Dots(s) : \A j \in Dots(s) : j <= i
HasExtension(s) ==
    /\ Dots(s) # {}
    /\ LastDot(s) < Len(s)
    /\ \A j \in (LastDot(s) + 1)..Len(s) : s[j] # "/"

\* C31: generateCompressedFilename(name, suffix) returns the name with its
\* trailing extension (the last '.' followed by one or more characters
\* other than '.' and '/') removed, followed by the suffix (default
\* '_compressed') and '.jpg'; a name without an extension is kept whole,
\* and only the last extension of a name with several dots is removed.
C31_Filename ==
    (helperArgs.fn = "generateCompressedFilename" /\ returned # <<>>) =>
       LET name == helperArgs.originalFilename
           tail == (IF helperArgs.hasSuffix THEN helperArgs.suffix
                    ELSE <<"_", "c", "o", "m", "p", "r", "e", "s", "s", "e", "d">>)
                   \o <<".", "j", "p", "g">>
       IN /\ HasExtension(name) =>
                returned[1] = SubSeq(name, 1, LastDot(name) - 1) \o tail
          /\ ~HasExtension(name) => returned[1] = name \o tail

C31_Witness ==
    /\ helperArgs.fn = "generateCompressedFilename"
    /\ helperArgs.originalFilename = <<"a", ".", ".", "a">>
    /\ helperArgs.hasSuffix
    /\ helperArgs.suffix = <<"_", "s">>
    /\ returned = <<<<"a", ".", "_", "s", ".", "j", "p", "g">>>>

(***************************************************************************)
(* Properties of the components' loading flag, held file and result        *)
(***************************************************************************)
\* C32 (as claimed): in both compressor components isLoading is true only
\* while a non-superseded compression request is pending (timer armed) or
\* running; once no such request exists, in particular after handleReset
\* leaves no file selected, isLoading is false.
C32_LoadingOnlyWhilePending ==
    isLoading => \E r \in DOMAIN reqs : Pending(r) /\ ~Superseded(r)

\* the file the most recent user action leaves held: that of the newest
\* selection, or none if handleReset ran after it
LatestSelection ==
    IF Len(reads) > readsAtReset THEN reads[Len(reads)].file ELSE "none"

\* C33 (as claimed): on the Pixo page the held file is determined by the
\* most recent user action: once the reads of two selections A, B have
\* settled, file and fileData are those of B whatever order the reads
\* complete in; and if handleReset runs while a read is pending, file and
\* fileData remain null after that read completes.
C33_LatestSelectionHeld ==
    (\A i \in DOMAIN reads : ~reads[i].pending) =>
       /\ file = LatestSelection
       /\ fileData = LatestSelection

\* the two-selection half of C33 alone: no reset has run
ReorderOnly ==
    (readsAtReset = 0 /\ \A i \in DOMAIN reads : ~reads[i].pending) =>
       file = LatestSelection

\* C34: in both compressor components, whenever result is non-null it was
\* computed from the currently selected file: a step that selects a new
\* valid file (it changes file, or arms a request without a quality
\* change) clears result, and a result committed afterwards comes from the
\* newest request, made for the file now held.
C34_ResultOfHeldFile ==
    [][/\ result' # NoResult => result'.file = file'
       /\ (file' # file \/ (Len(reqs') > Len(reqs) /\ quality' = quality)) =>
             result' = NoResult
       /\ (result' # result /\ result' # NoResult) =>
             /\ result'.req = Len(reqs)
             /\ reqs[result'.req].file = file
             /\ file' = file
      ]_vars

C34_Witness ==
    /\ page = "canvas"
    /\ result # NoResult
    /\ result.req = 2
    /\ result.file = "wide"
    /\ file = "wide"
    /\ reqs[1].phase = "dropped"

\* C35: on the Canvas page the object URL of the displayed result is never
\* revoked while it is displayed, and every compressed-result URL that is
\* not the current one is revoked: the URL of a request that completes is
\* either made the current one or revoked in that step, the previous URL is
\* revoked in the step that replaces it (a newer result, or reset), and no
\* revocation is undone; so at most one un-revoked URL exists whenever no
\* compression is running.
C35_UrlsRevoked ==
    [][page = "canvas" =>
          /\ result'.url # 0 =>
                (result'.url \notin revoked' /\ result'.url = resultRef')
          /\ resultRef' # 0 => resultRef' \notin revoked'
          /\ \A r \in DOMAIN reqs :
                (/\ reqs[r].phase = "running"
                 /\ Over(reqs'[r].phase)
                 /\ \E o \in CompOutcomes : o.kind = "ok" /\ Settle(r, o)) =>
                   (resultRef' = r \/ r \in revoked')
          /\ (resultRef # 0 /\ resultRef' # resultRef) => resultRef \in revoked'
          /\ revoked \subseteq revoked'
      ]_vars

C35_Witness ==
    /\ page = "canvas"
    /\ result.url = 2
    /\ resultRef = 2
    /\ revoked = {1}
    /\ reqs[1].phase = "settled"

\* C36: if the first initPixo() call rejects, the rejected promise stays
\* memoized: initPixo is not invoked again, and every compressWithPixo call
\* awaits that promise and fails with the initialisation error without a
\* probe, a decode attempt or an encode.
C36_RejectedInitMemoized ==
    (initState # <<>> /\ initState[1] = "rejected") =>
       /\ initCalls = 1
       /\ pixoReady = 1
       /\ \A c \in {k \in Callers : call[k].fn = "compressWithPixo"} :
             /\ call[c].pc \in {"init", "done"}
             /\ call[c].awaited = 1
             /\ call[c].pc = "done" => call[c].outcome = Failure(Error("init", 0))
             /\ call[c].probes = <<>>
             /\ call[c].attempts = <<>>
             /\ call[c].encodes = <<>>

\* two calls have been made one after the other; the second one started
\* after the first had failed, and has failed in the same way
C36_Witness ==
    /\ initState = <<"rejected">>
    /\ initCalls = 1
    /\ nCalls = 2
    /\ call[1].fn = "compressWithPixo"
    /\ call[1].pc = "done"
    /\ call[1].outcome = Failure(Error("init", 0))
    /\ call[2].pc = "idle"

\* C37: for every byte buffer, getImageDimensionsFromHeader terminates and
\* never reads a byte at an index outside the buffer: the JPEG segment walk
\* increases its offset by at least 2 on every iteration (also for a
\* declared segment length of 0), and every 8-, 16- or 32-bit read lies
\* fully inside the buffer.
C37_ReadsInsideBuffer ==
    HeaderCalled =>
       LET n == BufferLength(helperArgs.file)
           offsets == JpegWalkOffsets(helperArgs.file, n, 2)
       IN /\ \A r \in HeaderReads(helperArgs.file, n) :
                r.at >= 0 /\ r.at + r.bytes <= n
          /\ \A k \in 1..(Len(offsets) - 1) : offsets[k + 1] >= offsets[k] + 2
          /\ \A k \in 1..Len(offsets) : offsets[k] + 4 < n
          /\ Len(returned) = 1

\* a walk over a segment of declared length 0: from offset 2 to offset 4,
\* where it ends at a byte other than 0xFF
C37_Witness ==
    /\ HeaderCalled
    /\ helperArgs.file =
          Buffer("image/jpeg", SOI \o <<255, 224, 0, 0>>
                                   \o Segment(255, 192, FramePayload(192)))
    /\ JpegWalkOffsets(helperArgs.file, BufferLength(helperArgs.file), 2) = <<2, 4>>
    /\ returned = <<NoDims>>

\* C38: every result committed to the `result` state has
\* 0 < originalSize <= 15 * 1024 * 1024 and compressedSize >= 0, so the
\* getCompressionRatio and formatFileSize calls made while rendering the
\* result never fail.
C38_RenderableResult ==
    result # NoResult =>
       /\ 0 < result.originalSize
       /\ result.originalSize <= 15 * 1024 * 1024
       /\ result.compressedSize >= 0
       /\ ~RenderThrows(result)

C38_Witness ==
    /\ result # NoResult
    /\ result.file = "png"
    /\ result.originalSize = 28
    /\ result.compressedSize = 1000
    /\ ~RenderThrows(result)

(***************************************************************************)
(* C39: bitmaps of decode attempts                                         *)
(***************************************************************************)
\* extractPixels: no attempt that has ended has left its bitmap open
ExtractPixelsBitmapsClosed ==
    \A c \in Callers : \A i \in DOMAIN call[c].attempts :
        call[c].attempts[i].bitmap # "open"

\* the worker: no run that has ended has left its bitmap open
WorkerBitmapsClosed ==
    \A m \in DOMAIN worker : worker[m].pc = "done" => worker[m].bitmap # "open"

\* C39: every ImageBitmap a decode attempt created, in extractPixels and in
\* the compress worker, has been closed when the attempt ends, on the
\* success path and on every failure path, so none is open when the next
\* smaller cap is tried
C39_BitmapsClosed == ExtractPixelsBitmapsClosed /\ WorkerBitmapsClosed

(***************************************************************************)
(* C40: the responses of the compress worker                               *)
(***************************************************************************)
\* C40: a run of the worker's handler that has ended has posted exactly one
\* response, a run that has not ended has posted none; the response is the
\* success response {blob, width, height} of the scaled dimensions when no
\* step failed and an error response otherwise
C40_OneResponsePerRequest ==
    \A m \in DOMAIN worker :
        LET h == worker[m] IN
        /\ Len(h.posted) = IF h.pc = "done" THEN 1 ELSE 0
        /\ h.pc = "done" =>
              IF h.failed = "none"
              THEN /\ h.posted[1].kind = "success"
                   /\ h.posted[1].blob \in WorkerBlobSizes
                   /\ h.posted[1].width = h.width
                   /\ h.posted[1].height = h.height
                   /\ h.width <= MAX_CANVAS_DIMENSION
                   /\ h.height <= MAX_CANVAS_DIMENSION
              ELSE /\ h.posted[1].kind = "error"
                   /\ h.posted[1].error # ""

\* two requests answered, one with the scaled image of an 8000 x 6000
\* original and one with the fallback message after drawImage threw a
\* value that is not an Error
C40_Witness ==
    \E m, n \in DOMAIN worker :
        /\ worker[m].pc = "done" /\ worker[n].pc = "done"
        /\ worker[m].originalWidth = 8000
        /\ worker[m].posted[1].kind = "success"
        /\ worker[m].posted[1].width = 4096
        /\ worker[m].posted[1].height = 3072
        /\ worker[n].failed = "draw"
        /\ worker[n].posted[1].error = "Compression failed in worker"

====
